---------------------------- MODULE Spec2Model ----------------------------
(***************************************************************************)
(* Realtime leaderboard: the rank store (Redis sorted set + attribute      *)
(* cache), the score-update hot path, the write-behind stream with its     *)
(* consumer-group worker, the pub/sub channel and the WebSocket hub.       *)
(***************************************************************************)
EXTENDS Integers, Sequences, FiniteSets, TLC

(***************************************************************************)
(* Rank store: pure helpers                                                *)
(***************************************************************************)

\* Rating bounds of UpdateUserScore.
MinRating == 100
MaxRating == 5000

\* Users of the rank-store specification and the scores they may carry.
RankUsers == {8, 9, 10, 11}
RankScores == {4850, 4900, 5000}
\* Limits handed to GetTopUsers.
MaxLimit == 4
Limits == (0 - 2) .. MaxLimit

\* f with key k set to v.
Put(f, k, v) == [x \in (DOMAIN f) \cup {k} |-> IF x = k THEN v ELSE f[x]]

RECURSIVE Digits(_)
\* strconv / fmt "%d": the decimal digits of a non-negative integer.
Digits(n) == IF n < 10 THEN <<n>> ELSE Append(Digits(n \div 10), n % 10)

RECURSIVE ParseUint(_)
\* strconv.ParseUint(s, 10, 32) on a digit string.
ParseUint(ds) ==
    IF Len(ds) = 0 THEN 0
    ELSE 10 * ParseUint(SubSeq(ds, 1, Len(ds) - 1)) + ds[Len(ds)]

\* fmt.Sprintf("user:%d", userID): the member name; the constant prefix
\* "user:" is left implicit, the digits are what orders two members.
Member(u) == Digits(u)

\* strings.TrimPrefix + strconv.ParseUint of a member name.
MemberUserID(m) == ParseUint(m)

RECURSIVE LexLess(_, _)
\* Byte-wise lexicographic order of two member names (Redis orders members
\* of equal score this way).
LexLess(a, b) ==
    IF Len(a) = 0 THEN Len(b) > 0
    ELSE IF Len(b) = 0 THEN FALSE
    ELSE IF a[1] # b[1] THEN a[1] < b[1]
    ELSE LexLess(Tail(a), Tail(b))

\* fmt.Sprintf("%f", score): the decimal digits of the whole part and six
\* fractional digits, all zero for the integer-valued scores stored here.
FmtF(score) == [whole |-> Digits(score), frac |-> [i \in 1 .. 6 |-> 0]]

\* Redis comparing a stored (integer-valued) score with a parsed range
\* bound: strictly above, or at least, the bound.
ScoreAbove(score, bound) == score > ParseUint(bound.whole)
ScoreAtLeast(score, bound) ==
    \/ score > ParseUint(bound.whole)
    \/ score = ParseUint(bound.whole) /\ \A i \in 1 .. 6 : bound.frac[i] = 0

\* ZADD key score member.
ZAdd(z, u, rating) ==
    [m \in (DOMAIN z) \cup {u} |-> IF m = u THEN rating ELSE z[m]]

\* ZREM key member.
ZRem(z, u) == [m \in (DOMAIN z) \ {u} |-> z[m]]

\* ZSCORE key member: the score, or redis.Nil.
ZScore(z, u) ==
    IF u \in DOMAIN z THEN [nil |-> FALSE, score |-> z[u]]
    ELSE [nil |-> TRUE, score |-> 0]

\* ZCOUNT key "(<bound>" "+inf": members with score strictly above bound.
ZCountAbove(z, bound) ==
    Cardinality({m \in DOMAIN z : ScoreAbove(z[m], bound)})

\* m1 sorts before m2 in ZREVRANGE: higher score first, and for equal
\* scores the lexicographically larger member first.
RevBefore(z, m1, m2) ==
    \/ z[m1] > z[m2]
    \/ z[m1] = z[m2] /\ LexLess(Member(m2), Member(m1))

RECURSIVE RevOrder(_, _)
\* The members of S in ZREVRANGE order.
RevOrder(z, S) ==
    IF S = {} THEN <<>>
    ELSE LET first == CHOOSE m \in S : \A o \in S \ {m} : RevBefore(z, m, o)
         IN <<first>> \o RevOrder(z, S \ {first})

\* ZREVRANGE key start stop WITHSCORES, with Redis' index rules: negative
\* indexes count from the end, the range is clipped to the set.
ZRevRangeWithScores(z, start, stop) ==
    LET len == Cardinality(DOMAIN z)
        s0 == IF start < 0 THEN len + start ELSE start
        e0 == IF stop < 0 THEN len + stop ELSE stop
        s1 == IF s0 < 0 THEN 0 ELSE s0
        e1 == IF e0 >= len THEN len - 1 ELSE e0
        all == RevOrder(z, DOMAIN z)
    IN IF s1 > e1 \/ s1 >= len THEN <<>>
       ELSE [i \in 1 .. (e1 - s1 + 1) |->
               [Member |-> Member(all[s1 + i]), Score |-> z[all[s1 + i]]]]

RECURSIVE TopScanFlat(_, _, _, _, _)
\* The scan without the tie test: every entry ranked by its position.
TopScanFlat(results, i, currentRank, previousScore, entries) ==
    IF i >= Len(results) THEN entries
    ELSE LET zz == results[i + 1]
         IN TopScanFlat(results, i + 1, i + 1, zz.Score,
                Append(entries, [Rank |-> i + 1,
                                 UserID |-> MemberUserID(zz.Member),
                                 Rating |-> zz.Score]))

RECURSIVE TopScanDense(_, _, _, _, _)
\* The scan with dense ranks: a new score takes the next rank.
TopScanDense(results, i, currentRank, previousScore, entries) ==
    IF i >= Len(results) THEN entries
    ELSE LET zz == results[i + 1]
             rank == IF i > 0 /\ zz.Score # previousScore
                     THEN currentRank + 1 ELSE currentRank
         IN TopScanDense(results, i + 1, rank, zz.Score,
                Append(entries, [Rank |-> rank,
                                 UserID |-> MemberUserID(zz.Member),
                                 Rating |-> zz.Score]))

RECURSIVE TopScan(_, _, _, _, _)
\* The loop of GetTopUsers: i is the zero-based index of the range loop.
TopScan(results, i, currentRank, previousScore, entries) ==
    IF i >= Len(results) THEN entries
    ELSE LET zz == results[i + 1]
             rank == IF i > 0 /\ zz.Score # previousScore
                     THEN i + 1 ELSE currentRank
         IN TopScan(results, i + 1, rank, zz.Score,
                Append(entries, [Rank |-> rank,
                                 UserID |-> MemberUserID(zz.Member),
                                 Rating |-> zz.Score]))

\* GetTopUsers with currentRank starting at 0.
GetTopUsersFromZero(z, limit) ==
    TopScan(ZRevRangeWithScores(z, 0, limit - 1), 0, 0, 0, <<>>)

\* GetTopUsers asking ZREVRANGE for the range 0 .. limit.
GetTopUsersOneMore(z, limit) ==
    TopScan(ZRevRangeWithScores(z, 0, limit), 0, 1, 0, <<>>)

\* leaderboardRepository.GetTopUsers(limit).
GetTopUsers(z, limit) ==
    TopScan(ZRevRangeWithScores(z, 0, limit - 1), 0, 1, 0, <<>>)

\* ZCOUNT with an inclusive lower bound (the "(" forgotten), plus one.
RankFromCountInclusive(z, score) ==
    Cardinality({m \in DOMAIN z : ScoreAtLeast(z[m], FmtF(score))}) + 1

\* The result of the second half of GetUserRank: higherCount + 1.
RankFromCount(z, score) == ZCountAbove(z, FmtF(score)) + 1

(***************************************************************************)
(* Score update, cache, cold store and stream: pure helpers                *)
(***************************************************************************)

\* UpdateUserScore, "validate rating bounds": two ifs in sequence.
\* A validation that bounds the rating from above only.
ClampHighOnly(newRating) ==
    IF newRating > MaxRating THEN MaxRating ELSE newRating

\* A validation that bounds the rating from below only.
ClampLowOnly(newRating) ==
    IF newRating < MinRating THEN MinRating ELSE newRating

\* "Validate rating bounds" of UpdateUserScore.
Clamp(newRating) ==
    LET r1 == IF newRating < MinRating THEN MinRating ELSE newRating
    IN IF r1 > MaxRating THEN MaxRating ELSE r1

\* encoding/json and Redis hash fields write an integer as a sign and
\* decimal digits; strconv.Atoi / json.Unmarshal read it back.
Itoa(n) == [neg |-> n < 0, digits |-> Digits(IF n < 0 THEN 0 - n ELSE n)]
Atoi(t) == IF t.neg THEN 0 - ParseUint(t.digits) ELSE ParseUint(t.digits)

\* CacheUser: HSET user:cache:<id> id .. username .. rating ..
CacheUser(c, user) ==
    Put(c, user.ID, [id |-> Itoa(user.ID), username |-> user.Username,
                     rating |-> Itoa(user.Rating)])

\* GetCachedUser: HGETALL; an empty result is the "user not in cache" error.
GetCachedUser(c, userID) ==
    IF userID \in DOMAIN c
    THEN [err |-> FALSE, ID |-> Atoi(c[userID].id),
          Username |-> c[userID].username, Rating |-> Atoi(c[userID].rating)]
    ELSE [err |-> TRUE, ID |-> 0, Username |-> 0, Rating |-> 0]

\* A lookup that answers an unknown id with a zero-valued user and no
\* error.
GetByIDZeroUser(c, userID) ==
    IF userID \in DOMAIN c
    THEN [err |-> FALSE, ID |-> userID, Username |-> c[userID].Username,
          Rating |-> c[userID].Rating]
    ELSE [err |-> FALSE, ID |-> 0, Username |-> 0, Rating |-> 0]

\* userRepository.GetByID: SELECT ... WHERE id = ? LIMIT 1.
GetByID(c, userID) ==
    IF userID \in DOMAIN c
    THEN [err |-> FALSE, ID |-> userID, Username |-> c[userID].Username,
          Rating |-> c[userID].Rating]
    ELSE [err |-> TRUE, ID |-> 0, Username |-> 0, Rating |-> 0]

\* A payload whose rank delta is new rank minus old rank.
BuildPayloadRankDown(l) ==
    [UserID |-> l.userID, Username |-> l.username,
     OldRating |-> l.oldRating, NewRating |-> l.newRating,
     OldRank |-> l.oldRank, NewRank |-> l.newRank,
     RankDelta |-> l.newRank - l.oldRank,
     RatingDelta |-> l.newRating - l.oldRating]

\* The ScoreUpdatePayload UpdateUserScore builds from its locals.
BuildPayload(l) ==
    [UserID |-> l.userID, Username |-> l.username,
     OldRating |-> l.oldRating, NewRating |-> l.newRating,
     OldRank |-> l.oldRank, NewRank |-> l.newRank,
     RankDelta |-> l.oldRank - l.newRank,
     RatingDelta |-> l.newRating - l.oldRating]

\* json.Marshal / json.Unmarshal of a ScoreUpdatePayload.
MarshalPayload(pl) ==
    [user_id |-> Itoa(pl.UserID), username |-> pl.Username,
     old_rating |-> Itoa(pl.OldRating), new_rating |-> Itoa(pl.NewRating),
     old_rank |-> Itoa(pl.OldRank), new_rank |-> Itoa(pl.NewRank),
     rank_delta |-> Itoa(pl.RankDelta),
     rating_delta |-> Itoa(pl.RatingDelta)]
UnmarshalPayload(d) ==
    [UserID |-> Atoi(d.user_id), Username |-> d.username,
     OldRating |-> Atoi(d.old_rating), NewRating |-> Atoi(d.new_rating),
     OldRank |-> Atoi(d.old_rank), NewRank |-> Atoi(d.new_rank),
     RankDelta |-> Atoi(d.rank_delta), RatingDelta |-> Atoi(d.rating_delta)]

\* The DBSyncQueueItem UpdateUserScore enqueues.
BuildItem(l) ==
    [UserID |-> l.userID, OldRating |-> l.oldRating,
     NewRating |-> l.newRating]

\* json.Marshal / json.Unmarshal of a DBSyncQueueItem (the "data" field).
MarshalItem(it) ==
    [UserID |-> Itoa(it.UserID), OldRating |-> Itoa(it.OldRating),
     NewRating |-> Itoa(it.NewRating)]
UnmarshalItem(d) ==
    [UserID |-> Atoi(d.UserID), OldRating |-> Atoi(d.OldRating),
     NewRating |-> Atoi(d.NewRating)]

\* Scaled-down stand-ins of the worker's constants (program values:
\* BatchSize 100, StreamMaxLen 100, TrimEveryNBatches 10).
BatchSize == 2
StreamMaxLen == 1
TrimEveryNBatches == 2

\* The ids of a sequence of stream entries.
Ids(entries) == {entries[i].id : i \in DOMAIN entries}

\* The first n elements of a sequence / its last n elements.
Take(q, n) == SubSeq(q, 1, IF Len(q) < n THEN Len(q) ELSE n)
LastN(q, n) == SubSeq(q, IF Len(q) > n THEN Len(q) - n + 1 ELSE 1, Len(q))

RECURSIVE Unread(_, _)
\* The entries of the stream after the group's last-delivered id.
Unread(str, last) ==
    IF Len(str) = 0 THEN <<>>
    ELSE IF str[1].id > last THEN str
    ELSE Unread(Tail(str), last)

\* XREADGROUP GROUP g c COUNT n STREAMS s ">": the new entries only.
XReadGroupNew(str, last, count) == Take(Unread(str, last), count)

\* XTRIM s MAXLEN n: keep the newest n entries.
XTrimMaxLen(str, maxLen) == LastN(str, maxLen)

\* tx.Model(&User{}).Where("id = ?", id).Update("rating", r).
UpdateRating(c, it) ==
    IF it.UserID \in DOMAIN c
    THEN [c EXCEPT ![it.UserID].Rating = it.NewRating]
    ELSE c

\* The ScoreUpdate history row of an item.
HistoryRow(it) ==
    [UserID |-> it.UserID, OldRating |-> it.OldRating,
     NewRating |-> it.NewRating, Change |-> it.NewRating - it.OldRating]

RECURSIVE ApplyItems(_, _, _, _)
\* The body of the transaction on the first n items, in order.
ApplyItems(c, h, items, n) ==
    IF n = 0 THEN [cold |-> c, history |-> h]
    ELSE LET prev == ApplyItems(c, h, items, n - 1)
         IN [cold |-> UpdateRating(prev.cold, items[n]),
             history |-> Append(prev.history, HistoryRow(items[n]))]

\* A "transaction" with no rollback: what ran before the error stays.
TxOutcomePartial(c, h, items, failAt) ==
    IF failAt = 0
    THEN [ok |-> TRUE] @@ ApplyItems(c, h, items, Len(items))
    ELSE [ok |-> FALSE] @@ ApplyItems(c, h, items, failAt - 1)

\* db.Transaction: failAt = 0 commits all items; failAt = k fails at the
\* k-th item and rolls everything back.
TxOutcome(c, h, items, failAt) ==
    IF failAt = 0
    THEN [ok |-> TRUE] @@ ApplyItems(c, h, items, Len(items))
    ELSE [ok |-> FALSE, cold |-> c, history |-> h]

(***************************************************************************)
(* State                                                                   *)
(***************************************************************************)
VARIABLES
    \* --- rank store (Redis) and cold store (PostgreSQL)
    zset,       \* sorted set leaderboard:global : member user id -> score
    cache,      \* hashes user:cache:<id> : user id -> [id, username, rating]
    cold,       \* table users : id -> [Username, Rating]
    history,    \* table score_updates, in insertion order
    \* --- a caller of the repository's read operations
    rpc,        \* GetUserRank caller: "idle" or "count" (between its two
                \* Redis calls)
    ruser,      \* the user the caller asked for
    rscore,     \* the score ZSCORE returned to it
    rdirty,     \* a write reached the sorted set between its two calls
    ranks,      \* results GetUserRank returned since the last write:
                \* user -> [err, rank, dirty]
    topres,     \* the last GetTopUsers call: [limit, entries, called]
    fill,       \* GetLeaderboard after a cache miss: the user it read from
                \* the cold store and has not cached yet
    \* --- UpdateUserScore calls
    upc,        \* per request goroutine: the next step of UpdateUserScore
    ul,         \* per request goroutine: the locals of the call
    ncalls,     \* calls started so far
    events,     \* payloads published on leaderboard:score_updates, in order
    returned,   \* what the finished calls returned
    zlog,       \* the ZADDs of UpdateUserScore in the order Redis ran them
    faults,     \* Redis / bus failures injected so far
    reqOf,      \* call id -> the rating the caller asked for
    \* --- write-behind stream stream:score_updates, group db-sync-group
    stream,     \* the entries still in the stream, oldest first
    nextId,     \* the id the next XADD gets
    lastDelivered, \* the group's last-delivered id
    pel,        \* the group's pending entries list (ids read, not acked)
    \* --- the DB sync worker
    wpc,        \* "idle", "tx" (batch read), "ack" (committed), "down",
                \* "stopped" (returned on stopCh)
    batch,      \* the entries the worker holds (items / messageIDs)
    batchCounter, \* dbSyncService.batchCounter
    trims,      \* trimStream goroutines started and not yet run
    committed,  \* ids of the entries whose transaction committed
    failedIds,  \* ids of the entries whose transaction failed
    lostIds,    \* ids the worker held when it crashed
    dbFails,    \* failed transactions so far
    crashes,    \* worker crashes so far
    \* --- the WebSocket hub and its clients
    clients,    \* Hub.clients: the registered clients
    broadcast,  \* Hub.broadcast: the buffered channel of messages
    send,       \* per client: Client.send, the buffered outbound queue
    closed,     \* per client: Client.send has been closed
    wp,         \* per client: WritePump "none", "run" or "exit"
    rp,         \* per client: ReadPump "none", "run", "unreg" (blocked in
                \* Hub.Unregister) or "exit"
    nsent,      \* BroadcastScoreUpdate calls so far
    wrote,      \* per client: the frames WritePump wrote to the connection
    regAt,      \* per client: how many broadcasts the hub had processed
                \* when it registered the client
    \* --- the event bus (Redis Pub/Sub) and the server instances
    sub,        \* per instance: its subscription "off", "live", "stopping"
                \* (context cancelled, goroutine still there), "stopped"
    subAt,      \* per instance: events published before it subscribed
    subch,      \* per instance: messages delivered to its subscription
                \* and not yet taken by its goroutine
    handed,     \* per instance: the payloads given to its handler
    \* --- the seeder's Redis sync / SyncUserToLeaderboard
    sync,       \* the user whose AddUser is done and CacheUser is not
    \* --- the server process (main) and its shutdown
    mainpc,     \* "serving", "stopsync", "stoppubsub", "return", "exited"
    stopCh,     \* dbSyncService.stopCh has been closed
    wlate,      \* the worker passed its select before stopCh was closed
    \* --- read-path calls
    sres,       \* the last SearchUsers call and what it returned
    lb,         \* the GetLeaderboard call in progress, or its result
    race,       \* a GetUserRank call observed together with the writes
                \* that land between its two Redis calls
    \* --- hub registry observers
    count,      \* what the last GetClientCount call returned
    nclose      \* per connection, how often close(client.send) has run

storeVars == <<zset, cache, cold, history>>
readVars == <<rpc, ruser, rscore, rdirty, ranks, topres, fill>>
updVars == <<upc, ul, ncalls, events, returned, zlog, faults, reqOf>>
streamVars == <<stream, nextId, lastDelivered, pel>>
workVars == <<wpc, batch, batchCounter, trims, committed, failedIds,
              lostIds, dbFails, crashes>>

hubVars == <<clients, broadcast, send, closed, wp, rp, nsent, wrote, regAt>>

busVars == <<sub, subAt, subch, handed>>

seedVars == <<sync>>

lifeVars == <<mainpc, stopCh, wlate>>

queryVars == <<sres, lb>>

raceVars == <<race>>

regVars == <<count, nclose>>

vars == <<storeVars, readVars, updVars, streamVars, workVars, hubVars,
          busVars, seedVars, lifeVars, queryVars, raceVars, regVars>>

NoRanks == [u \in {} |-> 0]
NoTop == [limit |-> 0, entries |-> <<>>, called |-> FALSE]

\* The request goroutines.
Procs == {1, 2}

\* The zero value of the locals of UpdateUserScore.
NoLocals == [cid |-> 0, userID |-> 0, newRating |-> 0, found |-> FALSE,
             username |-> 0, oldRating |-> 0, oldRank |-> 0, newRank |-> 0,
             score |-> 0]

\* No cache fill in progress.
NoFill == [err |-> TRUE, ID |-> 0, Username |-> 0, Rating |-> 0]

InitReader ==
    /\ rpc = "idle"
    /\ ruser = 0
    /\ rscore = 0
    /\ rdirty = FALSE
    /\ ranks = NoRanks
    /\ topres = NoTop
    /\ fill = NoFill

InitUpdates ==
    /\ upc = [p \in Procs |-> "idle"]
    /\ ul = [p \in Procs |-> NoLocals]
    /\ ncalls = 0
    /\ events = <<>>
    /\ returned = {}
    /\ zlog = <<>>
    /\ faults = 0
    /\ reqOf = [c \in {} |-> 0]

\* NewDBSyncService: initStream has created the (empty) stream and group;
\* Start has launched the worker.
InitPipeline ==
    /\ stream = <<>>
    /\ nextId = 1
    /\ lastDelivered = 0
    /\ pel = {}
    /\ wpc = "idle"
    /\ batch = <<>>
    /\ batchCounter = 0
    /\ trims = 0
    /\ committed = {}
    /\ failedIds = {}
    /\ lostIds = {}
    /\ dbFails = 0
    /\ crashes = 0

\* The clients that may connect.
HubClients == {1, 2}

\* The server instances; instance HubInst is the one whose hub is modelled.
Insts == {1, 2}
HubInst == 1

\* NewPubSubService: not subscribed yet.
InitBus ==
    /\ sub = [i \in Insts |-> "off"]
    /\ subAt = [i \in Insts |-> 0]
    /\ subch = [i \in Insts |-> <<>>]
    /\ handed = [i \in Insts |-> <<>>]

\* NewHub: no client registered, nothing to broadcast.
InitHub ==
    /\ clients = {}
    /\ broadcast = <<>>
    /\ send = [c \in HubClients |-> <<>>]
    /\ closed = [c \in HubClients |-> FALSE]
    /\ wp = [c \in HubClients |-> "none"]
    /\ rp = [c \in HubClients |-> "none"]
    /\ nsent = 0
    /\ wrote = [c \in HubClients |-> <<>>]
    /\ regAt = [c \in HubClients |-> 0]

\* No Redis sync of a user in progress.
InitSeed == sync = NoFill

\* main is serving: stopCh is open and the worker has not been told to
\* stop.
InitMain ==
    /\ mainpc = "serving"
    /\ stopCh = FALSE
    /\ wlate = FALSE

\* No SearchUsers call yet; no GetLeaderboard call in progress.
NoSearch == [pc |-> "idle", called |-> FALSE, query |-> <<>>, limit |-> 0,
             users |-> <<>>, i |-> 0, seen |-> <<>>, results |-> <<>>]
NoBoard == [pc |-> "idle", called |-> FALSE, limit |-> 0, top |-> <<>>,
            entries |-> <<>>, i |-> 0, user |-> NoFill, src |-> <<>>]

\* No observed GetUserRank call.
NoRace == [pc |-> "idle", userID |-> 0, score |-> 0, before |-> NoRanks,
           writes |-> 0, after |-> NoRanks, rank |-> 0]

InitQuery ==
    /\ sres = NoSearch
    /\ lb = NoBoard
    /\ race = NoRace
    /\ count = 0
    /\ nclose = [c \in HubClients |-> 0]

(***************************************************************************)
(* Rank-store specification: a seeded sorted set, writers, one GetUserRank *)
(* caller at a time and GetTopUsers calls.  Results already returned are   *)
(* kept until the next write to the sorted set.                            *)
(***************************************************************************)
InitRank ==
    /\ zset \in UNION {[S -> RankScores] : S \in SUBSET RankUsers}
    /\ cache = [u \in {} |-> 0]
    /\ cold = [u \in {} |-> 0]
    /\ history = <<>>
    /\ InitReader
    /\ InitUpdates
    /\ InitPipeline
    /\ InitHub
    /\ InitBus
    /\ InitSeed
    /\ InitMain
    /\ InitQuery

\* AddUser / UpdateUserScore of the repository: one ZADD.
RankWrite(u, rating) ==
    /\ zset' = ZAdd(zset, u, rating)
    /\ topres' = NoTop
    /\ ranks' = NoRanks
    /\ rdirty' = (rpc = "count")
    /\ UNCHANGED <<rpc, ruser, rscore>>
    /\ UNCHANGED <<cache, cold, history, updVars, streamVars, workVars>>
    /\ UNCHANGED hubVars
    /\ UNCHANGED busVars
    /\ UNCHANGED fill
    /\ UNCHANGED <<seedVars, lifeVars, queryVars, raceVars, regVars>>

\* GetUserRank, first Redis call: ZSCORE; redis.Nil ends the call with the
\* "not found" error and rank 0.
RankZScore(u) ==
    /\ rpc = "idle"
    /\ LET r == ZScore(zset, u)
       IN IF r.nil
          THEN /\ ranks' = Put(ranks, u, [err |-> TRUE, rank |-> 0,
                                          dirty |-> FALSE])
               /\ UNCHANGED <<rpc, ruser, rscore>>
          ELSE /\ rpc' = "count"
               /\ ruser' = u
               /\ rscore' = r.score
               /\ UNCHANGED ranks
    /\ topres' = NoTop
    /\ UNCHANGED rdirty
    /\ UNCHANGED <<storeVars, updVars, streamVars, workVars>>
    /\ UNCHANGED hubVars
    /\ UNCHANGED busVars
    /\ UNCHANGED fill
    /\ UNCHANGED <<seedVars, lifeVars, queryVars, raceVars, regVars>>

\* GetUserRank, second Redis call: ZCOUNT above the score, plus one.
RankZCount ==
    /\ rpc = "count"
    /\ ranks' = Put(ranks, ruser, [err |-> FALSE,
                                   rank |-> RankFromCount(zset, rscore),
                                   dirty |-> rdirty])
    /\ rpc' = "idle"
    /\ ruser' = 0
    /\ rscore' = 0
    /\ rdirty' = FALSE
    /\ UNCHANGED topres
    /\ UNCHANGED <<storeVars, updVars, streamVars, workVars>>
    /\ UNCHANGED hubVars
    /\ UNCHANGED busVars
    /\ UNCHANGED fill
    /\ UNCHANGED <<seedVars, lifeVars, queryVars, raceVars, regVars>>

\* GetTopUsers(limit): one ZREVRANGE and the rank scan.
RankTop(limit) ==
    /\ rpc = "idle"
    /\ topres' = [limit |-> limit, entries |-> GetTopUsers(zset, limit),
                  called |-> TRUE]
    /\ ranks' = NoRanks
    /\ UNCHANGED <<rpc, ruser, rscore, rdirty>>
    /\ UNCHANGED <<storeVars, updVars, streamVars, workVars>>
    /\ UNCHANGED hubVars
    /\ UNCHANGED busVars
    /\ UNCHANGED fill
    /\ UNCHANGED <<seedVars, lifeVars, queryVars, raceVars, regVars>>

NextRank ==
    \/ \E u \in RankUsers, r \in RankScores : RankWrite(u, r)
    \/ \E u \in RankUsers : RankZScore(u)
    \/ RankZCount
    \/ \E l \in Limits : RankTop(l)

SpecRank == InitRank /\ [][NextRank]_vars

(***************************************************************************)
(* UpdateUserScore, one action per call into Redis / PostgreSQL            *)
(***************************************************************************)

\* Bounds: calls per behaviour, injected Redis failures, failed
\* transactions, worker crashes.
MaxCalls == 2
MaxPipeCalls == 3
MaxFaults == 1
MaxDbFails == 1
MaxCrashes == 1
MaxPoison == 1
MaxPoisonCalls == 2

\* A Redis / bus call either succeeds or fails (while failures remain).
Outcome(ok) ==
    /\ ok \/ faults < MaxFaults
    /\ faults' = IF ok THEN faults ELSE faults + 1

\* The call of goroutine p ends: its result is recorded, its locals go.
Return(p, err, item) ==
    /\ returned' = returned \cup
          {[cid |-> ul[p].cid, userID |-> ul[p].userID, err |-> err,
            payload |-> IF err = "" THEN BuildPayload(ul[p])
                        ELSE BuildPayload(NoLocals),
            item |-> item]}
    /\ upc' = [upc EXCEPT ![p] = "idle"]
    /\ ul' = [ul EXCEPT ![p] = NoLocals]

\* Entry: clamp the rating, then GetCachedUser; a miss (or a failed read)
\* sends the call to the cold store.
UBegin(p, userID, requested, maxCalls, ok) ==
    /\ upc[p] = "idle"
    /\ ncalls < maxCalls
    /\ Outcome(ok)
    /\ ncalls' = ncalls + 1
    /\ reqOf' = Put(reqOf, ncalls + 1, requested)
    /\ LET user == GetCachedUser(cache, userID)
           l0 == [NoLocals EXCEPT !.cid = ncalls + 1, !.userID = userID,
                                  !.newRating = Clamp(requested)]
       IN IF ok /\ ~user.err
          THEN /\ ul' = [ul EXCEPT ![p] =
                            [l0 EXCEPT !.found = TRUE,
                                       !.username = user.Username,
                                       !.oldRating = user.Rating]]
               /\ upc' = [upc EXCEPT ![p] = "oldscore"]
          ELSE /\ ul' = [ul EXCEPT ![p] = l0]
               /\ upc' = [upc EXCEPT ![p] = "getbyid"]
    /\ UNCHANGED <<storeVars, readVars, events, returned, zlog,
                   streamVars, workVars>>
    /\ UNCHANGED hubVars
    /\ UNCHANGED busVars
    /\ UNCHANGED <<seedVars, lifeVars, queryVars, raceVars, regVars>>

\* userRepo.GetByID after a cache miss; no row: "user not found".
UGetByID(p) ==
    /\ upc[p] = "getbyid"
    /\ LET user == GetByID(cold, ul[p].userID)
       IN IF user.err
          THEN Return(p, "UserNotFound", 0)
          ELSE /\ ul' = [ul EXCEPT ![p].found = TRUE,
                                   ![p].username = user.Username,
                                   ![p].oldRating = user.Rating]
               /\ upc' = [upc EXCEPT ![p] = "oldscore"]
               /\ UNCHANGED returned
    /\ UNCHANGED <<storeVars, readVars, ncalls, events, zlog, faults,
                   streamVars, workVars>>
    /\ UNCHANGED hubVars
    /\ UNCHANGED busVars
    /\ UNCHANGED reqOf
    /\ UNCHANGED <<seedVars, lifeVars, queryVars, raceVars, regVars>>

\* GetUserRank (old rank), ZSCORE: any error makes oldRank 0.
UOldScore(p, ok) ==
    /\ upc[p] = "oldscore"
    /\ Outcome(ok)
    /\ LET r == ZScore(zset, ul[p].userID)
       IN IF ok /\ ~r.nil
          THEN /\ ul' = [ul EXCEPT ![p].score = r.score]
               /\ upc' = [upc EXCEPT ![p] = "oldcount"]
          ELSE /\ ul' = [ul EXCEPT ![p].oldRank = 0]
               /\ upc' = [upc EXCEPT ![p] = "zadd"]
    /\ UNCHANGED <<storeVars, readVars, ncalls, events, returned, zlog,
                   streamVars, workVars>>
    /\ UNCHANGED hubVars
    /\ UNCHANGED busVars
    /\ UNCHANGED reqOf
    /\ UNCHANGED <<seedVars, lifeVars, queryVars, raceVars, regVars>>

\* GetUserRank (old rank), ZCOUNT.
UOldCount(p, ok) ==
    /\ upc[p] = "oldcount"
    /\ Outcome(ok)
    /\ ul' = [ul EXCEPT ![p].oldRank =
                 IF ok THEN RankFromCount(zset, ul[p].score) ELSE 0,
                        ![p].score = 0]
    /\ upc' = [upc EXCEPT ![p] = "zadd"]
    /\ UNCHANGED <<storeVars, readVars, ncalls, events, returned, zlog,
                   streamVars, workVars>>
    /\ UNCHANGED hubVars
    /\ UNCHANGED busVars
    /\ UNCHANGED reqOf
    /\ UNCHANGED <<seedVars, lifeVars, queryVars, raceVars, regVars>>

\* STEP 2 as written after the publish and enqueue steps: nothing is
\* written to the sorted set at this point of the call.
UZAddLate(p, ok) ==
    /\ upc[p] = "zadd"
    /\ Outcome(ok)
    /\ IF ok
       THEN /\ upc' = [upc EXCEPT ![p] = "cacheput"]
            /\ UNCHANGED <<ul, returned>>
       ELSE Return(p, "Redis", 0)
    /\ UNCHANGED <<storeVars, readVars, ncalls, events, zlog,
                   streamVars, workVars>>
    /\ UNCHANGED hubVars
    /\ UNCHANGED busVars
    /\ UNCHANGED reqOf
    /\ UNCHANGED <<seedVars, lifeVars, queryVars, raceVars, regVars>>

\* STEP 2 with the error of the ZADD logged and swallowed.
UZAddSwallow(p, ok) ==
    /\ upc[p] = "zadd"
    /\ Outcome(ok)
    /\ IF ok
       THEN /\ zset' = ZAdd(zset, ul[p].userID, ul[p].newRating)
            /\ zlog' = Append(zlog, [cid |-> ul[p].cid,
                                      userID |-> ul[p].userID,
                                      rating |-> ul[p].newRating])
       ELSE UNCHANGED <<zset, zlog>>
    /\ upc' = [upc EXCEPT ![p] = "cacheput"]
    /\ UNCHANGED <<ul, returned>>
    /\ UNCHANGED <<cache, cold, history, readVars, ncalls, events,
                   streamVars, workVars>>
    /\ UNCHANGED hubVars
    /\ UNCHANGED busVars
    /\ UNCHANGED reqOf
    /\ UNCHANGED <<seedVars, lifeVars, queryVars, raceVars, regVars>>

\* STEP 2: leaderboardRepo.UpdateUserScore (ZADD); on error the call
\* returns "failed to update Redis".
UZAdd(p, ok) ==
    /\ upc[p] = "zadd"
    /\ Outcome(ok)
    /\ IF ok
       THEN /\ zset' = ZAdd(zset, ul[p].userID, ul[p].newRating)
            /\ zlog' = Append(zlog, [cid |-> ul[p].cid,
                                      userID |-> ul[p].userID,
                                      rating |-> ul[p].newRating])
            /\ upc' = [upc EXCEPT ![p] = "cacheput"]
            /\ UNCHANGED <<ul, returned>>
       ELSE /\ Return(p, "Redis", 0)
            /\ UNCHANGED <<zset, zlog>>
    /\ UNCHANGED <<cache, cold, history, readVars, ncalls, events,
                   streamVars, workVars>>
    /\ UNCHANGED hubVars
    /\ UNCHANGED busVars
    /\ UNCHANGED reqOf
    /\ UNCHANGED <<seedVars, lifeVars, queryVars, raceVars, regVars>>

\* "Update cache": user.Rating = newRating; CacheUser(user), its error
\* ignored.
UCacheUser(p, ok) ==
    /\ upc[p] = "cacheput"
    /\ Outcome(ok)
    /\ cache' = IF ok
                THEN CacheUser(cache, [ID |-> ul[p].userID,
                                       Username |-> ul[p].username,
                                       Rating |-> ul[p].newRating])
                ELSE cache
    /\ upc' = [upc EXCEPT ![p] = "newscore"]
    /\ UNCHANGED <<zset, cold, history, readVars, ul, ncalls, events,
                   returned, zlog, streamVars, workVars>>
    /\ UNCHANGED hubVars
    /\ UNCHANGED busVars
    /\ UNCHANGED reqOf
    /\ UNCHANGED <<seedVars, lifeVars, queryVars, raceVars, regVars>>

\* STEP 3, GetUserRank (new rank), ZSCORE: any error makes newRank 0.
UNewScore(p, ok) ==
    /\ upc[p] = "newscore"
    /\ Outcome(ok)
    /\ LET r == ZScore(zset, ul[p].userID)
       IN IF ok /\ ~r.nil
          THEN /\ ul' = [ul EXCEPT ![p].score = r.score]
               /\ upc' = [upc EXCEPT ![p] = "newcount"]
          ELSE /\ ul' = [ul EXCEPT ![p].newRank = 0]
               /\ upc' = [upc EXCEPT ![p] = "publish"]
    /\ UNCHANGED <<storeVars, readVars, ncalls, events, returned, zlog,
                   streamVars, workVars>>
    /\ UNCHANGED hubVars
    /\ UNCHANGED busVars
    /\ UNCHANGED reqOf
    /\ UNCHANGED <<seedVars, lifeVars, queryVars, raceVars, regVars>>

\* STEP 3 with a failed rank read ending the call with an error.
UNewCountFailFast(p, ok) ==
    /\ upc[p] = "newcount"
    /\ Outcome(ok)
    /\ IF ok
       THEN /\ ul' = [ul EXCEPT ![p].newRank =
                         RankFromCount(zset, ul[p].score),
                                ![p].score = 0]
            /\ upc' = [upc EXCEPT ![p] = "publish"]
            /\ UNCHANGED returned
       ELSE Return(p, "Redis", 0)
    /\ UNCHANGED <<storeVars, readVars, ncalls, events, zlog,
                   streamVars, workVars>>
    /\ UNCHANGED hubVars
    /\ UNCHANGED busVars
    /\ UNCHANGED reqOf
    /\ UNCHANGED <<seedVars, lifeVars, queryVars, raceVars, regVars>>

\* STEP 3, GetUserRank (new rank), ZCOUNT.
UNewCount(p, ok) ==
    /\ upc[p] = "newcount"
    /\ Outcome(ok)
    /\ ul' = [ul EXCEPT ![p].newRank =
                 IF ok THEN RankFromCount(zset, ul[p].score) ELSE 0,
                        ![p].score = 0]
    /\ upc' = [upc EXCEPT ![p] = "publish"]
    /\ UNCHANGED <<storeVars, readVars, ncalls, events, returned, zlog,
                   streamVars, workVars>>
    /\ UNCHANGED hubVars
    /\ UNCHANGED busVars
    /\ UNCHANGED reqOf
    /\ UNCHANGED <<seedVars, lifeVars, queryVars, raceVars, regVars>>

\* STEP 5 with a failed publish ending the call with an error.
UPublishFailFast(p, ok) ==
    /\ upc[p] = "publish"
    /\ Outcome(ok)
    /\ IF ok
       THEN /\ events' = Append(events,
                            [cid |-> ul[p].cid,
                             data |-> MarshalPayload(BuildPayload(ul[p]))])
            /\ upc' = [upc EXCEPT ![p] = "enqueue"]
            /\ UNCHANGED <<ul, returned>>
       ELSE /\ Return(p, "Bus", 0)
            /\ UNCHANGED events
    /\ UNCHANGED <<storeVars, readVars, ncalls, zlog, streamVars, workVars>>
    /\ UNCHANGED hubVars
    /\ UNCHANGED busVars
    /\ UNCHANGED reqOf
    /\ UNCHANGED <<seedVars, lifeVars, queryVars, raceVars, regVars>>

\* STEP 5: pubSubService.Publish; a failure is logged and swallowed.
UPublish(p, ok) ==
    /\ upc[p] = "publish"
    /\ Outcome(ok)
    /\ events' = IF ok
                 THEN Append(events,
                        [cid |-> ul[p].cid,
                         data |-> MarshalPayload(BuildPayload(ul[p]))])
                 ELSE events
    /\ upc' = [upc EXCEPT ![p] = "enqueue"]
    /\ UNCHANGED <<storeVars, readVars, ul, ncalls, returned, zlog,
                   streamVars, workVars>>
    /\ UNCHANGED hubVars
    /\ UNCHANGED busVars
    /\ UNCHANGED reqOf
    /\ UNCHANGED <<seedVars, lifeVars, queryVars, raceVars, regVars>>

\* STEP 6: dbSyncService.EnqueueUpdate (XADD); a failure is logged and
\* swallowed; then the call returns the payload.
UEnqueue(p, ok) ==
    /\ upc[p] = "enqueue"
    /\ Outcome(ok)
    /\ IF ok
       THEN /\ stream' = Append(stream,
                            [id |-> nextId, cid |-> ul[p].cid,
                             data |-> MarshalItem(BuildItem(ul[p]))])
            /\ nextId' = nextId + 1
            /\ Return(p, "", nextId)
       ELSE /\ Return(p, "", 0)
            /\ UNCHANGED <<stream, nextId>>
    /\ UNCHANGED <<storeVars, readVars, ncalls, events, zlog,
                   lastDelivered, pel, workVars>>
    /\ UNCHANGED hubVars
    /\ UNCHANGED busVars
    /\ UNCHANGED reqOf
    /\ UNCHANGED <<seedVars, lifeVars, queryVars, raceVars, regVars>>

\* One step of the call of goroutine p; B holds the outcomes its Redis
\* calls before the XADD may have.
UStep(p, B) ==
    \/ UGetByID(p)
    \/ \E ok \in B : UOldScore(p, ok)
    \/ \E ok \in B : UOldCount(p, ok)
    \/ \E ok \in B : UZAdd(p, ok)
    \/ \E ok \in B : UCacheUser(p, ok)
    \/ \E ok \in B : UNewScore(p, ok)
    \/ \E ok \in B : UNewCount(p, ok)
    \/ \E ok \in B : UPublish(p, ok)
    \/ \E ok \in BOOLEAN : UEnqueue(p, ok)

(***************************************************************************)
(* The DB sync worker (dbSyncService.worker / processBatch / trimStream)   *)
(***************************************************************************)

\* The items the worker unmarshalled from the entries it holds.
\* json.Unmarshal into a DBSyncQueueItem fails when the text of an integer
\* field is no number; then the entry is passed over.
ItemJSONError(d) ==
    \E f \in {"UserID", "OldRating", "NewRating"} : d[f].digits = <<>>

\* The entries of a batch that unmarshal: the loop that fills items and
\* messageIDs.
Parsed(entries) == SelectSeq(entries, LAMBDA e : ~ItemJSONError(e.data))

Items(entries) == [i \in DOMAIN entries |-> UnmarshalItem(entries[i].data)]

\* An entry has been delivered to the group and not acknowledged / has
\* not been delivered yet.
Pending(id) == id \in pel
Undelivered(id) == id > lastDelivered /\ id < nextId
Unacked(id) == Pending(id) \/ Undelivered(id)

\* The worker's select finds stopCh open (or found it open before it
\* blocked in the read), then processBatch, XREADGROUP with ">": up to
\* BatchSize new entries; they enter the pending list.  A read that finds
\* nothing returns, and so does one none of whose entries unmarshals.
WorkerRead ==
    /\ wpc = "idle"
    /\ ~stopCh \/ wlate
    /\ wlate' = FALSE
    /\ LET msgs == XReadGroupNew(stream, lastDelivered, BatchSize)
       IN /\ Len(msgs) > 0
          /\ pel' = pel \cup Ids(msgs)
          /\ lastDelivered' = msgs[Len(msgs)].id
          /\ IF Parsed(msgs) = <<>>
             THEN /\ batch' = <<>>
                  /\ wpc' = "idle"
             ELSE /\ batch' = msgs
                  /\ wpc' = "tx"
    /\ UNCHANGED <<storeVars, readVars, updVars, stream, nextId,
                   batchCounter, trims, committed, failedIds, lostIds,
                   dbFails, crashes>>
    /\ UNCHANGED hubVars
    /\ UNCHANGED busVars
    /\ UNCHANGED <<mainpc, stopCh>>
    /\ UNCHANGED <<seedVars, queryVars, raceVars, regVars>>

\* processBatch, the DB transaction: it commits (failAt = 0), or fails at
\* item failAt, is rolled back, and processBatch returns without XACK.
WorkerTx(failAt) ==
    /\ wpc = "tx"
    /\ failAt \in 0 .. Len(Parsed(batch))
    /\ failAt > 0 => dbFails < MaxDbFails
    /\ LET out == TxOutcome(cold, history, Items(Parsed(batch)), failAt)
       IN /\ cold' = out.cold
          /\ history' = out.history
          /\ IF out.ok
             THEN /\ committed' = committed \cup Ids(Parsed(batch))
                  /\ wpc' = "ack"
                  /\ UNCHANGED <<batch, failedIds, dbFails>>
             ELSE /\ failedIds' = failedIds \cup Ids(batch)
                  /\ dbFails' = dbFails + 1
                  /\ wpc' = "idle"
                  /\ batch' = <<>>
                  /\ UNCHANGED committed
    /\ UNCHANGED <<zset, cache, readVars, updVars, streamVars,
                   batchCounter, trims, lostIds, crashes>>
    /\ UNCHANGED hubVars
    /\ UNCHANGED busVars
    /\ UNCHANGED <<seedVars, lifeVars, queryVars, raceVars, regVars>>

\* An acknowledgement of every entry that was read, unmarshalled or not.
WorkerAckAll ==
    /\ wpc = "ack"
    /\ pel' = pel \ Ids(batch)
    /\ batchCounter' = batchCounter + 1
    /\ trims' = IF (batchCounter + 1) % TrimEveryNBatches = 0
                THEN trims + 1 ELSE trims
    /\ wpc' = "idle"
    /\ batch' = <<>>
    /\ UNCHANGED <<storeVars, readVars, updVars, stream, nextId,
                   lastDelivered, committed, failedIds, lostIds, dbFails,
                   crashes>>
    /\ UNCHANGED hubVars
    /\ UNCHANGED busVars
    /\ UNCHANGED <<seedVars, lifeVars, queryVars, raceVars, regVars>>

\* processBatch after the commit: XACK of the batch's ids, the batch
\* counter, and every TrimEveryNBatches-th batch a trimStream goroutine.
WorkerAck ==
    /\ wpc = "ack"
    /\ pel' = pel \ Ids(Parsed(batch))
    /\ batchCounter' = batchCounter + 1
    /\ trims' = IF (batchCounter + 1) % TrimEveryNBatches = 0
                THEN trims + 1 ELSE trims
    /\ wpc' = "idle"
    /\ batch' = <<>>
    /\ UNCHANGED <<storeVars, readVars, updVars, stream, nextId,
                   lastDelivered, committed, failedIds, lostIds, dbFails,
                   crashes>>
    /\ UNCHANGED hubVars
    /\ UNCHANGED busVars
    /\ UNCHANGED <<seedVars, lifeVars, queryVars, raceVars, regVars>>

\* trimStream: XTRIM MAXLEN StreamMaxLen.
TrimStream ==
    /\ trims > 0
    /\ trims' = trims - 1
    /\ stream' = XTrimMaxLen(stream, StreamMaxLen)
    /\ UNCHANGED <<storeVars, readVars, updVars, nextId, lastDelivered,
                   pel, wpc, batch, batchCounter, committed, failedIds,
                   lostIds, dbFails, crashes>>
    /\ UNCHANGED hubVars
    /\ UNCHANGED busVars
    /\ UNCHANGED <<seedVars, lifeVars, queryVars, raceVars, regVars>>

\* The worker's process dies between XREADGROUP and XACK: its batch, its
\* counter and its goroutines are gone; Redis keeps stream and group.
WorkerCrash ==
    /\ wpc \in {"tx", "ack"}
    /\ crashes < MaxCrashes
    /\ crashes' = crashes + 1
    /\ lostIds' = lostIds \cup Ids(batch)
    /\ wpc' = "down"
    /\ batch' = <<>>
    /\ batchCounter' = 0
    /\ trims' = 0
    /\ UNCHANGED <<storeVars, readVars, updVars, streamVars, committed,
                   failedIds, dbFails>>
    /\ UNCHANGED hubVars
    /\ UNCHANGED busVars
    /\ UNCHANGED <<seedVars, lifeVars, queryVars, raceVars, regVars>>

\* Restart: NewDBSyncService (initStream gets BUSYGROUP: the group and its
\* last-delivered id stay as they are) and Start.
WorkerStart ==
    /\ wpc = "down"
    /\ wpc' = "idle"
    /\ UNCHANGED <<storeVars, readVars, updVars, streamVars, batch,
                   batchCounter, trims, committed, failedIds, lostIds,
                   dbFails, crashes>>
    /\ UNCHANGED hubVars
    /\ UNCHANGED busVars
    /\ UNCHANGED <<seedVars, lifeVars, queryVars, raceVars, regVars>>

(***************************************************************************)
(* The HTTP handler of update_score                                        *)
(***************************************************************************)

\* ShouldBindJSON with binding "required,min=100,max=5000": a missing or
\* zero new_rating, or one outside 100..5000, is answered with 400.
BindRequest(newRating) ==
    newRating # 0 /\ newRating >= 100 /\ newRating <= 5000

\* LeaderboardHandler.UpdateUserScore after the service call: any error
\* is answered with 500, success with 200.
UpdateUserScoreStatus(err) == IF err # "" THEN 500 ELSE 200

\* The response to a request: 400 when the body does not bind, else the
\* status for what the service returned.
HttpStatus(requested, err) ==
    IF ~BindRequest(requested) THEN 400 ELSE UpdateUserScoreStatus(err)

(***************************************************************************)
(* Specifications of the update path                                       *)
(***************************************************************************)

\* Users known to the cold store; the seeder's Redis sync skipped 11
\* (its AddUser failed).  7 exists nowhere.
ColdUsers == {9, 10, 11}
SyncedUsers == {9, 10}
UpdUsers == {9, 11, 7}
PipeUsers == {9, 11}
Requests == {50, 4950, 5100}
PipeRequests == {4950, 5100}

SeedRating(u) == IF u = 9 THEN 5000 ELSE 4900

\* The state the seeder leaves: every user in the cold store, the synced
\* users in the sorted set and in the cache.
InitStore ==
    /\ cold = [u \in ColdUsers |-> [Username |-> u, Rating |-> SeedRating(u)]]
    /\ zset = [u \in SyncedUsers |-> SeedRating(u)]
    /\ cache = [u \in SyncedUsers |->
                  [id |-> Itoa(u), username |-> u,
                   rating |-> Itoa(SeedRating(u))]]
    /\ history = <<>>

Init ==
    /\ InitStore
    /\ InitReader
    /\ InitUpdates
    /\ InitPipeline
    /\ InitHub
    /\ InitBus
    /\ InitSeed
    /\ InitMain
    /\ InitQuery

\* Concurrent UpdateUserScore calls (no worker).
NextUpdate ==
    \/ \E p \in Procs, u \in UpdUsers, r \in Requests, ok \in BOOLEAN :
          UBegin(p, u, r, MaxCalls, ok)
    \/ \E p \in Procs : UStep(p, BOOLEAN)

SpecUpdate == Init /\ [][NextUpdate]_vars

\* One request goroutine, whose Redis calls succeed up to the XADD, and
\* the write-behind worker.
Next ==
    \/ \E u \in PipeUsers, r \in PipeRequests :
          UBegin(1, u, r, MaxPipeCalls, TRUE)
    \/ UStep(1, {TRUE})
    \/ WorkerRead
    \/ \E k \in 0 .. BatchSize : WorkerTx(k)
    \/ WorkerAck
    \/ TrimStream
    \/ WorkerCrash
    \/ WorkerStart

Spec == Init /\ [][Next]_vars

\* The worker keeps running, a call that has begun runs to its end, and
\* the cold store fails only finitely often (MaxDbFails).
SpecFair ==
    /\ Spec
    /\ WF_vars(UStep(1, {TRUE}))
    /\ WF_vars(TrimStream)
    /\ WF_vars(WorkerRead)
    /\ WF_vars(WorkerTx(0))
    /\ WF_vars(WorkerAck)
    /\ WF_vars(WorkerStart)

\* A text that is no number, and a stream entry whose "data" field holds
\* such a text where DBSyncQueueItem has an integer.
Garbage == [neg |-> FALSE, digits |-> <<>>]
PoisonData == [UserID |-> Garbage, OldRating |-> Itoa(0), NewRating |-> Itoa(0)]

\* The stream ids given to entries that no update_score call added.
ForeignIds == (1 .. (nextId - 1)) \ {r.item : r \in returned}

\* Another Redis client adds an entry that processBatch cannot unmarshal.
XAddForeign ==
    /\ Cardinality(ForeignIds) < MaxPoison
    /\ stream' = Append(stream, [id |-> nextId, cid |-> 0,
                                 data |-> PoisonData])
    /\ nextId' = nextId + 1
    /\ UNCHANGED <<storeVars, readVars, updVars, lastDelivered, pel,
                   workVars, hubVars, busVars>>
    /\ UNCHANGED <<seedVars, lifeVars, queryVars, raceVars, regVars>>

\* The write-behind pipeline with poison entries among the items.
NextPoison ==
    \/ \E u \in PipeUsers, r \in PipeRequests :
          UBegin(1, u, r, MaxPoisonCalls, TRUE)
    \/ UStep(1, {TRUE})
    \/ XAddForeign
    \/ WorkerRead
    \/ \E k \in 0 .. BatchSize : WorkerTx(k)
    \/ WorkerAck
    \/ TrimStream

SpecPoison == Init /\ [][NextPoison]_vars

(***************************************************************************)
(* GetLeaderboard's cache fill, and all writers of ratings together        *)
(***************************************************************************)

\* GetLeaderboard enriching the entry of user u: GetCachedUser misses and
\* the user is read from the cold store.
FillRead(u) ==
    /\ fill = NoFill
    /\ u \in DOMAIN zset
    /\ GetCachedUser(cache, u).err
    /\ ~GetByID(cold, u).err
    /\ fill' = GetByID(cold, u)
    /\ UNCHANGED <<rpc, ruser, rscore, rdirty, ranks, topres>>
    /\ UNCHANGED <<storeVars, updVars, streamVars, workVars, hubVars,
                   busVars>>
    /\ UNCHANGED <<seedVars, lifeVars, queryVars, raceVars, regVars>>

\* "Cache for next time": CacheUser of the user read from the cold store.
FillWrite ==
    /\ fill # NoFill
    /\ cache' = CacheUser(cache, fill)
    /\ fill' = NoFill
    /\ UNCHANGED <<rpc, ruser, rscore, rdirty, ranks, topres>>
    /\ UNCHANGED <<zset, cold, history>>
    /\ UNCHANGED <<updVars, streamVars, workVars, hubVars, busVars>>
    /\ UNCHANGED <<seedVars, lifeVars, queryVars, raceVars, regVars>>

\* update_score calls of one goroutine for any request, the write-behind
\* worker and the cache fills of the read path.
NextAll ==
    \/ \E u \in PipeUsers, r \in Requests : UBegin(1, u, r, MaxCalls, TRUE)
    \/ UStep(1, {TRUE})
    \/ WorkerRead
    \/ \E k \in 0 .. BatchSize : WorkerTx(k)
    \/ WorkerAck
    \/ TrimStream
    \/ WorkerCrash
    \/ WorkerStart
    \/ \E u \in ColdUsers : FillRead(u)
    \/ FillWrite

SpecAll == Init /\ [][NextAll]_vars

(***************************************************************************)
(* update_score on a fully seeded leaderboard                              *)
(***************************************************************************)

\* The seeder has synced every user: A = 9 at 5000, B = 10 and C = 11 at
\* 4900, all of them in the sorted set and in the cache.
InitSeeded ==
    /\ cold = [u \in ColdUsers |-> [Username |-> u, Rating |-> SeedRating(u)]]
    /\ zset = [u \in ColdUsers |-> SeedRating(u)]
    /\ cache = [u \in ColdUsers |->
                  [id |-> Itoa(u), username |-> u,
                   rating |-> Itoa(SeedRating(u))]]
    /\ history = <<>>
    /\ InitReader
    /\ InitUpdates
    /\ InitPipeline
    /\ InitHub
    /\ InitBus
    /\ InitSeed
    /\ InitMain
    /\ InitQuery

\* The users updated on the seeded leaderboard.
SeededUsers == {10, 11}

\* Concurrent UpdateUserScore calls whose Redis calls may fail.
NextSeeded ==
    \/ \E p \in Procs, u \in SeededUsers, r \in PipeRequests,
          ok \in BOOLEAN :
          UBegin(p, u, r, MaxCalls, ok)
    \/ \E p \in Procs : UStep(p, BOOLEAN)

SpecSeeded == InitSeeded /\ [][NextSeeded]_vars

\* The user whose updates race, and the number of racing calls.
ConvergeUsers == {11}
MaxConvergeCalls == 2

\* Concurrent UpdateUserScore calls for one user, whom the seeder left in
\* the cold store only; none of their Redis calls fails; and the
\* write-behind worker, whose transactions commit.
NextConverge ==
    \/ \E p \in Procs, u \in ConvergeUsers, r \in PipeRequests :
          UBegin(p, u, r, MaxConvergeCalls, TRUE)
    \/ \E p \in Procs : UStep(p, {TRUE})
    \/ WorkerRead
    \/ WorkerTx(0)
    \/ WorkerAck
    \/ TrimStream

SpecConverge == Init /\ [][NextConverge]_vars

(***************************************************************************)
(* Search: candidates from the cold store, annotated with their ranks      *)
(***************************************************************************)

\* The users of the search runs, their seed ratings, the queries (strings
\* of digits; a username is written with the digits of its number) and
\* the largest limit.
SearchIds == {9, 19, 91}
SearchRating(u) == IF u = 9 THEN 5000 ELSE 4900
Queries == {<<>>, <<1>>, <<9>>}
MaxSearchLimit == 3

\* username ILIKE '%query%'.
Contains(hay, needle) ==
    \E k \in 0 .. (Len(hay) - Len(needle)) :
        SubSeq(hay, k + 1, k + Len(needle)) = needle

\* The rows of the users whose username matches.
Matching(c, query) ==
    {GetByID(c, u) : u \in {v \in DOMAIN c :
                               Contains(Digits(c[v].Username), query)}}

\* The elements of a sequence.
Range(q) == {q[k] : k \in DOMAIN q}

\* ORDER BY rating DESC, and sort.Slice with less = (Rating >): every
\* arrangement of the rows with non-increasing ratings; the order of rows
\* with equal ratings is not determined.
SortedByRating(rows) ==
    {q \in [1 .. Cardinality(rows) -> rows] :
        /\ \A a, b \in DOMAIN q : a # b => q[a] # q[b]
        /\ \A a, b \in DOMAIN q : a < b => q[a].Rating >= q[b].Rating}

\* leaderboardRepository.GetUserRank with no write between its two calls.
GetUserRank(z, userID) ==
    IF ZScore(z, userID).nil THEN [err |-> TRUE, rank |-> 0]
    ELSE [err |-> FALSE, rank |-> RankFromCount(z, ZScore(z, userID).score)]

\* SearchUsers up to its loop: an empty query returns an empty result;
\* else SearchByUsername (ORDER BY rating DESC LIMIT limit), the sort by
\* rating and the cut to limit.
SearchBegin(query, limit) ==
    /\ sres.pc = "idle"
    /\ IF Len(query) < 1
       THEN sres' = [NoSearch EXCEPT !.called = TRUE, !.query = query,
                                     !.limit = limit]
       ELSE \E rows \in SortedByRating(Matching(cold, query)) :
              \E sorted \in SortedByRating(Range(Take(rows, limit))) :
                 sres' = [NoSearch EXCEPT !.pc = "rank", !.query = query,
                                          !.limit = limit,
                                          !.users = Take(sorted, limit)]
    /\ UNCHANGED lb
    /\ UNCHANGED <<storeVars, readVars, updVars, streamVars, workVars,
                   hubVars, busVars>>
    /\ UNCHANGED <<seedVars, lifeVars, raceVars, regVars>>

\* A turn of the loop that appends a candidate whose rank is unknown, with
\* rank 0.
SearchRankKeep(ok) ==
    /\ sres.pc = "rank"
    /\ sres.i < Len(sres.users)
    /\ LET user == sres.users[sres.i + 1]
           r == IF ok THEN GetUserRank(zset, user.ID)
                ELSE [err |-> TRUE, rank |-> 0]
       IN sres' = [sres EXCEPT
                     !.i = @ + 1,
                     !.seen = Append(@, [ID |-> user.ID, err |-> r.err,
                                         rank |-> r.rank]),
                     !.results = Append(@, [GlobalRank |-> r.rank,
                                            UserID |-> user.ID,
                                            Username |-> user.Username,
                                            Rating |-> user.Rating])]
    /\ UNCHANGED lb
    /\ UNCHANGED <<storeVars, readVars, updVars, streamVars, workVars,
                   hubVars, busVars>>
    /\ UNCHANGED <<seedVars, lifeVars, raceVars, regVars>>

\* One turn of the loop: GetUserRank of the next candidate; on an error
\* (the user is not in the sorted set, or Redis failed) the candidate is
\* skipped, else it is appended with its rank.
SearchRank(ok) ==
    /\ sres.pc = "rank"
    /\ sres.i < Len(sres.users)
    /\ LET user == sres.users[sres.i + 1]
           r == IF ok THEN GetUserRank(zset, user.ID)
                ELSE [err |-> TRUE, rank |-> 0]
       IN sres' = [sres EXCEPT
                     !.i = @ + 1,
                     !.seen = Append(@, [ID |-> user.ID, err |-> r.err,
                                         rank |-> r.rank]),
                     !.results = IF r.err THEN @
                                 ELSE Append(@, [GlobalRank |-> r.rank,
                                                 UserID |-> user.ID,
                                                 Username |-> user.Username,
                                                 Rating |-> user.Rating])]
    /\ UNCHANGED lb
    /\ UNCHANGED <<storeVars, readVars, updVars, streamVars, workVars,
                   hubVars, busVars>>
    /\ UNCHANGED <<seedVars, lifeVars, raceVars, regVars>>

\* After the loop: the results are sorted by rating and returned.
SearchReturn ==
    /\ sres.pc = "rank"
    /\ sres.i = Len(sres.users)
    /\ \E sorted \in SortedByRating(Range(sres.results)) :
          sres' = [sres EXCEPT !.pc = "idle", !.called = TRUE,
                               !.results = sorted]
    /\ UNCHANGED lb
    /\ UNCHANGED <<storeVars, readVars, updVars, streamVars, workVars,
                   hubVars, busVars>>
    /\ UNCHANGED <<seedVars, lifeVars, raceVars, regVars>>

\* The cold store holds the search users; any of them may be in the
\* sorted set, with any score.
InitSearch ==
    /\ cold = [u \in SearchIds |->
                 [Username |-> u, Rating |-> SearchRating(u)]]
    /\ zset \in UNION {[S -> RankScores] : S \in SUBSET SearchIds}
    /\ cache = [u \in {} |-> 0]
    /\ history = <<>>
    /\ InitReader
    /\ InitUpdates
    /\ InitPipeline
    /\ InitHub
    /\ InitBus
    /\ InitSeed
    /\ InitMain
    /\ InitQuery

\* SearchUsers calls, one at a time, and writers of the sorted set.
NextSearch ==
    \/ \E query \in Queries, limit \in 1 .. MaxSearchLimit :
          SearchBegin(query, limit)
    \/ \E ok \in BOOLEAN : SearchRank(ok)
    \/ SearchReturn
    \/ \E u \in SearchIds, r \in RankScores : RankWrite(u, r)

SpecSearch == InitSearch /\ [][NextSearch]_vars

\* The seeder has synced the search users: every one is in the sorted set
\* with its cold-store rating; the cache entry of user 91 is missing.
InitSearchLive ==
    /\ cold = [u \in SearchIds |->
                 [Username |-> u, Rating |-> SearchRating(u)]]
    /\ zset = [u \in SearchIds |-> SearchRating(u)]
    /\ cache = [u \in SearchIds \ {91} |->
                  [id |-> Itoa(u), username |-> u,
                   rating |-> Itoa(SearchRating(u))]]
    /\ history = <<>>
    /\ InitReader
    /\ InitUpdates
    /\ InitPipeline
    /\ InitHub
    /\ InitBus
    /\ InitSeed
    /\ InitMain
    /\ InitQuery

\* The users updated while searches run, and the number of updates.
LiveUsers == {19, 91}
MaxLiveCalls == 1

\* SearchUsers calls beside update_score calls and the write-behind
\* worker.
NextSearchLive ==
    \/ \E query \in Queries, limit \in 1 .. MaxSearchLimit :
          SearchBegin(query, limit)
    \/ \E ok \in BOOLEAN : SearchRank(ok)
    \/ SearchReturn
    \/ \E u \in LiveUsers, r \in PipeRequests :
          UBegin(1, u, r, MaxLiveCalls, TRUE)
    \/ UStep(1, {TRUE})
    \/ WorkerRead
    \/ WorkerTx(0)
    \/ WorkerAck

SpecSearchLive == InitSearchLive /\ [][NextSearchLive]_vars

(***************************************************************************)
(* GetLeaderboard: the top entries enriched with usernames                 *)
(***************************************************************************)

\* GetLeaderboard, first call: GetTopUsers(limit); the entries carry the
\* empty username until they are enriched.
LBBegin(limit) ==
    /\ lb.pc = "idle"
    /\ LET top == GetTopUsers(zset, limit)
       IN lb' = [NoBoard EXCEPT
                   !.pc = "enrich", !.limit = limit, !.top = top,
                   !.entries = [k \in DOMAIN top |->
                                  [Rank |-> top[k].Rank,
                                   UserID |-> top[k].UserID,
                                   Username |-> 0,
                                   Rating |-> top[k].Rating]]]
    /\ UNCHANGED sres
    /\ UNCHANGED <<storeVars, readVars, updVars, streamVars, workVars,
                   hubVars, busVars>>
    /\ UNCHANGED <<seedVars, lifeVars, raceVars, regVars>>

\* One turn of the loop, cache hit: the username comes from the cache.
LBCached ==
    /\ lb.pc = "enrich"
    /\ lb.i < Len(lb.entries)
    /\ LET user == GetCachedUser(cache, lb.entries[lb.i + 1].UserID)
       IN /\ ~user.err
          /\ lb' = [lb EXCEPT !.entries[lb.i + 1].Username = user.Username,
                              !.i = @ + 1,
                              !.src = Append(@, "cache")]
    /\ UNCHANGED sres
    /\ UNCHANGED <<storeVars, readVars, updVars, streamVars, workVars,
                   hubVars, busVars>>
    /\ UNCHANGED <<seedVars, lifeVars, raceVars, regVars>>

\* A cache miss on a user unknown to the cold store that drops the entry.
LBMissDrop ==
    /\ lb.pc = "enrich"
    /\ lb.i < Len(lb.entries)
    /\ GetCachedUser(cache, lb.entries[lb.i + 1].UserID).err
    /\ LET user == GetByID(cold, lb.entries[lb.i + 1].UserID)
       IN IF user.err
          THEN lb' = [lb EXCEPT
                        !.entries = SubSeq(@, 1, lb.i) \o
                                    SubSeq(@, lb.i + 2, Len(@)),
                        !.src = Append(@, "none")]
          ELSE lb' = [lb EXCEPT !.pc = "fill", !.user = user]
    /\ UNCHANGED sres
    /\ UNCHANGED <<storeVars, readVars, updVars, streamVars, workVars,
                   hubVars, busVars>>
    /\ UNCHANGED <<seedVars, lifeVars, raceVars, regVars>>

\* One turn of the loop, cache miss: the user is read from the cold
\* store; if that fails the error is logged and the loop continues with
\* the entry as it is.
LBMiss ==
    /\ lb.pc = "enrich"
    /\ lb.i < Len(lb.entries)
    /\ GetCachedUser(cache, lb.entries[lb.i + 1].UserID).err
    /\ LET user == GetByID(cold, lb.entries[lb.i + 1].UserID)
       IN IF user.err
          THEN lb' = [lb EXCEPT !.i = @ + 1, !.src = Append(@, "none")]
          ELSE lb' = [lb EXCEPT !.pc = "fill", !.user = user]
    /\ UNCHANGED sres
    /\ UNCHANGED <<storeVars, readVars, updVars, streamVars, workVars,
                   hubVars, busVars>>
    /\ UNCHANGED <<seedVars, lifeVars, raceVars, regVars>>

\* "Cache for next time": CacheUser of the user read from the cold store,
\* then the username is set.
LBFill ==
    /\ lb.pc = "fill"
    /\ cache' = CacheUser(cache, lb.user)
    /\ lb' = [lb EXCEPT !.entries[lb.i + 1].Username = lb.user.Username,
                        !.i = @ + 1,
                        !.pc = "enrich",
                        !.user = NoFill,
                        !.src = Append(@, "cold")]
    /\ UNCHANGED sres
    /\ UNCHANGED <<zset, cold, history>>
    /\ UNCHANGED <<readVars, updVars, streamVars, workVars, hubVars,
                   busVars>>
    /\ UNCHANGED <<seedVars, lifeVars, raceVars, regVars>>

\* After the loop: the entries are returned.
LBReturn ==
    /\ lb.pc = "enrich"
    /\ lb.i = Len(lb.entries)
    /\ lb' = [lb EXCEPT !.pc = "idle", !.called = TRUE]
    /\ UNCHANGED sres
    /\ UNCHANGED <<storeVars, readVars, updVars, streamVars, workVars,
                   hubVars, busVars>>
    /\ UNCHANGED <<seedVars, lifeVars, raceVars, regVars>>

\* The sorted set holds four users: 9 is cached; the cache entries of 10
\* and 11 are missing (the seeder's CacheUser failed); the row of user 8
\* is gone from the cold store.
BoardUsers == {8, 9, 10, 11}
BoardScore(u) == IF u \in ColdUsers THEN SeedRating(u) ELSE 4950

InitBoard ==
    /\ cold = [u \in ColdUsers |-> [Username |-> u, Rating |-> SeedRating(u)]]
    /\ zset = [u \in BoardUsers |-> BoardScore(u)]
    /\ cache = [u \in {9} |->
                  [id |-> Itoa(u), username |-> u,
                   rating |-> Itoa(SeedRating(u))]]
    /\ history = <<>>
    /\ InitReader
    /\ InitUpdates
    /\ InitPipeline
    /\ InitHub
    /\ InitBus
    /\ InitSeed
    /\ InitMain
    /\ InitQuery

\* GetLeaderboard calls, one at a time, and update_score calls of one
\* goroutine.
NextBoard ==
    \/ \E limit \in 1 .. MaxLimit : LBBegin(limit)
    \/ LBCached
    \/ LBMiss
    \/ LBFill
    \/ LBReturn
    \/ \E u \in PipeUsers : UBegin(1, u, 4950, MaxCalls, TRUE)
    \/ UStep(1, {TRUE})

SpecBoard == InitBoard /\ [][NextBoard]_vars

(***************************************************************************)
(* GetUserRank racing with writers of the sorted set                       *)
(***************************************************************************)

\* The users whose rank is asked for, and the largest number of writes
\* that land between the two Redis calls of one GetUserRank.
RaceUsers == {8, 9}
MaxRaceWrites == 2

\* GetUserRank, first Redis call: ZSCORE of a member.  The sorted set as
\* it is now is kept for comparison.
RaceZScore(u) ==
    /\ race.pc \in {"idle", "done"}
    /\ ~ZScore(zset, u).nil
    /\ race' = [NoRace EXCEPT !.pc = "count", !.userID = u,
                              !.score = ZScore(zset, u).score,
                              !.before = zset]
    /\ UNCHANGED <<storeVars, readVars, updVars, streamVars, workVars,
                   hubVars, busVars>>
    /\ UNCHANGED <<seedVars, lifeVars, queryVars, regVars>>

\* The ZADD of an update_score call lands between the two calls.
RaceWrite(u, rating) ==
    /\ race.pc = "count"
    /\ race.writes < MaxRaceWrites
    /\ zset' = ZAdd(zset, u, rating)
    /\ race' = [race EXCEPT !.writes = @ + 1]
    /\ UNCHANGED <<cache, cold, history>>
    /\ UNCHANGED <<readVars, updVars, streamVars, workVars, hubVars,
                   busVars>>
    /\ UNCHANGED <<seedVars, lifeVars, queryVars, regVars>>

\* GetUserRank, second Redis call: ZCOUNT above the score read before,
\* plus one.
RaceZCount ==
    /\ race.pc = "count"
    /\ race' = [race EXCEPT !.pc = "done", !.after = zset,
                            !.rank = RankFromCount(zset, race.score)]
    /\ UNCHANGED <<storeVars, readVars, updVars, streamVars, workVars,
                   hubVars, busVars>>
    /\ UNCHANGED <<seedVars, lifeVars, queryVars, regVars>>

NextRace ==
    \/ \E u \in RaceUsers : RaceZScore(u)
    \/ \E u \in RankUsers, r \in RankScores : RaceWrite(u, r)
    \/ RaceZCount

SpecRace == InitRank /\ [][NextRace]_vars

(***************************************************************************)
(* Membership of the sorted set and of the attribute cache: the Redis     *)
(* sync of a user, update_score, cache fills and removal                   *)
(***************************************************************************)

\* SyncUserToLeaderboard (and one turn of the seeder's sync loop), first
\* call: AddUser of a user read from the cold store.  A failed AddUser
\* returns with nothing changed.
SyncAddUser(u) ==
    /\ sync = NoFill
    /\ ~GetByID(cold, u).err
    /\ sync' = GetByID(cold, u)
    /\ zset' = ZAdd(zset, u, GetByID(cold, u).Rating)
    /\ UNCHANGED <<cache, cold, history>>
    /\ UNCHANGED <<readVars, updVars, streamVars, workVars, hubVars,
                   busVars>>
    /\ UNCHANGED <<lifeVars, queryVars, raceVars, regVars>>

\* Second call: CacheUser of the same user; its error is returned (or
\* logged by the seeder) and the member stays in the sorted set.
SyncCacheUser(ok) ==
    /\ sync # NoFill
    /\ cache' = IF ok THEN CacheUser(cache, sync) ELSE cache
    /\ sync' = NoFill
    /\ UNCHANGED <<zset, cold, history>>
    /\ UNCHANGED <<readVars, updVars, streamVars, workVars, hubVars,
                   busVars>>
    /\ UNCHANGED <<lifeVars, queryVars, raceVars, regVars>>

\* RemoveUser of the repository: one ZREM of the member.
RemoveUser(userID) ==
    /\ userID \in DOMAIN zset
    /\ zset' = ZRem(zset, userID)
    /\ UNCHANGED <<cache, cold, history>>
    /\ UNCHANGED <<readVars, updVars, streamVars, workVars, hubVars,
                   busVars>>
    /\ UNCHANGED <<seedVars, lifeVars, queryVars, raceVars, regVars>>

\* The users that are updated and removed.
MemberUsers == {9, 11}

\* The Redis sync of user 11, update_score calls of one goroutine, the
\* cache fills of the read path and removals.
NextMembership ==
    \/ \E u \in ColdUsers \ SyncedUsers : SyncAddUser(u)
    \/ \E ok \in BOOLEAN : SyncCacheUser(ok)
    \/ \E u \in MemberUsers : RemoveUser(u)
    \/ \E u \in MemberUsers : UBegin(1, u, 4950, MaxCalls, TRUE)
    \/ UStep(1, {TRUE})
    \/ \E u \in MemberUsers : FillRead(u)
    \/ FillWrite

SpecMembership == Init /\ [][NextMembership]_vars

(***************************************************************************)
(* The WebSocket hub (Hub.Run) and its clients                             *)
(***************************************************************************)

\* Capacities of Client.send and Hub.broadcast (256 in the source), and
\* the number of broadcasts explored.
SendCap == 2
BroadcastCap == 2
MaxBroadcasts == 4

\* json.Marshal of the WebSocketMessage BroadcastScoreUpdate builds.
MarshalMessage(payload) == [Type |-> "score_update", Payload |-> payload]

\* The clients a broadcast finds with a full send buffer: the select's
\* default branch.
FullClients == {c \in clients : Len(send[c]) >= SendCap}

\* The number of messages Hub.Run has taken off Hub.broadcast.
HubProcessed == nsent - Len(broadcast)

\* HandleWebSocket: NewClient, Hub.Register (a rendezvous with the
\* register case of Hub.Run, which adds the client), then the two pumps
\* are started.
HandleWebSocket(c) ==
    /\ rp[c] = "none"
    /\ clients' = clients \cup {c}
    /\ send' = [send EXCEPT ![c] = <<>>]
    /\ wp' = [wp EXCEPT ![c] = "run"]
    /\ rp' = [rp EXCEPT ![c] = "run"]
    /\ regAt' = [regAt EXCEPT ![c] = HubProcessed]
    /\ UNCHANGED <<broadcast, closed, nsent, wrote>>
    /\ UNCHANGED <<storeVars, readVars, updVars, streamVars, workVars>>
    /\ UNCHANGED busVars
    /\ UNCHANGED <<seedVars, lifeVars, queryVars, raceVars, regVars>>

\* BroadcastScoreUpdate: marshal and send on Hub.broadcast; the caller
\* blocks while the channel is full.
BroadcastScoreUpdate ==
    /\ nsent < MaxBroadcasts
    /\ Len(broadcast) < BroadcastCap
    /\ broadcast' = Append(broadcast, MarshalMessage(nsent + 1))
    /\ nsent' = nsent + 1
    /\ UNCHANGED <<clients, send, closed, wp, rp, wrote, regAt>>
    /\ UNCHANGED <<storeVars, readVars, updVars, streamVars, workVars>>
    /\ UNCHANGED busVars
    /\ UNCHANGED <<seedVars, lifeVars, queryVars, raceVars, regVars>>

\* A broadcast case that sends to every client and waits for buffer space.
HubBroadcastBlocking ==
    /\ broadcast # <<>>
    /\ FullClients = {}
    /\ send' = [c \in HubClients |->
                  IF c \in clients THEN Append(send[c], Head(broadcast))
                  ELSE send[c]]
    /\ broadcast' = Tail(broadcast)
    /\ UNCHANGED <<clients, closed, wp, rp, nsent, wrote, regAt>>
    /\ UNCHANGED <<storeVars, readVars, updVars, streamVars, workVars>>
    /\ UNCHANGED busVars
    /\ UNCHANGED <<seedVars, lifeVars, queryVars, raceVars, regVars>>

\* A broadcast case that sends to every client that ever connected,
\* registered or not.
HubBroadcastToAll ==
    /\ broadcast # <<>>
    /\ send' = [c \in HubClients |->
                  IF rp[c] # "none" /\ Len(send[c]) < SendCap
                  THEN Append(send[c], Head(broadcast))
                  ELSE send[c]]
    /\ closed' = [c \in HubClients |-> closed[c] \/ c \in FullClients]
    /\ clients' = clients \ FullClients
    /\ nclose' = [c \in HubClients |->
                    IF c \in FullClients THEN nclose[c] + 1
                    ELSE nclose[c]]
    /\ UNCHANGED count
    /\ broadcast' = Tail(broadcast)
    /\ UNCHANGED <<wp, rp, nsent, wrote, regAt>>
    /\ UNCHANGED <<storeVars, readVars, updVars, streamVars, workVars>>
    /\ UNCHANGED busVars
    /\ UNCHANGED <<seedVars, lifeVars, queryVars, raceVars>>

\* A broadcast case that deletes a client whose buffer is full and leaves
\* its channel open.
HubBroadcastNoClose ==
    /\ broadcast # <<>>
    /\ send' = [c \in HubClients |->
                  IF c \in clients \ FullClients
                  THEN Append(send[c], Head(broadcast))
                  ELSE send[c]]
    /\ clients' = clients \ FullClients
    /\ broadcast' = Tail(broadcast)
    /\ UNCHANGED <<closed, wp, rp, nsent, wrote, regAt>>
    /\ UNCHANGED <<storeVars, readVars, updVars, streamVars, workVars>>
    /\ UNCHANGED busVars
    /\ UNCHANGED <<seedVars, lifeVars, queryVars, raceVars, regVars>>

\* The broadcast case of Hub.Run: under the hub's lock, a non-blocking
\* send to every registered client; a client whose buffer is full has its
\* channel closed and is deleted from the map.  The sends to different
\* clients touch different channels, so the loop is one step.
HubBroadcast ==
    /\ broadcast # <<>>
    /\ send' = [c \in HubClients |->
                  IF c \in clients \ FullClients
                  THEN Append(send[c], Head(broadcast))
                  ELSE send[c]]
    /\ closed' = [c \in HubClients |-> closed[c] \/ c \in FullClients]
    /\ clients' = clients \ FullClients
    /\ nclose' = [c \in HubClients |->
                    IF c \in FullClients THEN nclose[c] + 1
                    ELSE nclose[c]]
    /\ UNCHANGED count
    /\ broadcast' = Tail(broadcast)
    /\ UNCHANGED <<wp, rp, nsent, wrote, regAt>>
    /\ UNCHANGED <<storeVars, readVars, updVars, streamVars, workVars>>
    /\ UNCHANGED busVars
    /\ UNCHANGED <<seedVars, lifeVars, queryVars, raceVars>>

\* A WritePump that writes the frame and leaves it in the queue.
WritePumpSendTwice(c) ==
    /\ wp[c] = "run"
    /\ send[c] # <<>>
    /\ wrote' = [wrote EXCEPT ![c] = Append(wrote[c], Head(send[c]))]
    /\ UNCHANGED <<clients, broadcast, send, closed, wp, rp, nsent, regAt>>
    /\ UNCHANGED <<storeVars, readVars, updVars, streamVars, workVars>>
    /\ UNCHANGED busVars
    /\ UNCHANGED <<seedVars, lifeVars, queryVars, raceVars, regVars>>

\* WritePump receives a message from Client.send and writes it to the
\* connection.
WritePumpSend(c) ==
    /\ wp[c] = "run"
    /\ send[c] # <<>>
    /\ send' = [send EXCEPT ![c] = Tail(send[c])]
    /\ wrote' = [wrote EXCEPT ![c] = Append(wrote[c], Head(send[c]))]
    /\ UNCHANGED <<clients, broadcast, closed, wp, rp, nsent, regAt>>
    /\ UNCHANGED <<storeVars, readVars, updVars, streamVars, workVars>>
    /\ UNCHANGED busVars
    /\ UNCHANGED <<seedVars, lifeVars, queryVars, raceVars, regVars>>

\* WritePump receives a message from Client.send, the write of the frame
\* fails (the peer stopped reading, or the connection is closed) and the
\* pump returns: the message is gone from the queue and was not received.
WritePumpWriteFail(c) ==
    /\ wp[c] = "run"
    /\ send[c] # <<>>
    /\ send' = [send EXCEPT ![c] = Tail(send[c])]
    /\ wp' = [wp EXCEPT ![c] = "exit"]
    /\ UNCHANGED <<clients, broadcast, closed, rp, nsent, wrote, regAt>>
    /\ UNCHANGED <<storeVars, readVars, updVars, streamVars, workVars>>
    /\ UNCHANGED busVars
    /\ UNCHANGED <<seedVars, lifeVars, queryVars, raceVars, regVars>>

\* WritePump finds Client.send closed and drained, writes the close
\* message and returns.
WritePumpClosed(c) ==
    /\ wp[c] = "run"
    /\ send[c] = <<>>
    /\ closed[c]
    /\ wp' = [wp EXCEPT ![c] = "exit"]
    /\ UNCHANGED <<clients, broadcast, send, closed, rp, nsent, wrote, regAt>>
    /\ UNCHANGED <<storeVars, readVars, updVars, streamVars, workVars>>
    /\ UNCHANGED busVars
    /\ UNCHANGED <<seedVars, lifeVars, queryVars, raceVars, regVars>>

\* WritePump returns because a write to the connection failed: the peer
\* stopped reading (write deadline) or the connection is gone.  Nothing
\* receives from Client.send any more.
WritePumpFail(c) ==
    /\ wp[c] = "run"
    /\ wp' = [wp EXCEPT ![c] = "exit"]
    /\ UNCHANGED <<clients, broadcast, send, closed, rp, nsent, wrote, regAt>>
    /\ UNCHANGED <<storeVars, readVars, updVars, streamVars, workVars>>
    /\ UNCHANGED busVars
    /\ UNCHANGED <<seedVars, lifeVars, queryVars, raceVars, regVars>>

\* ReadPump leaves its loop on a read error and calls Hub.Unregister,
\* which blocks until Hub.Run receives.
ReadPumpExit(c) ==
    /\ rp[c] = "run"
    /\ rp' = [rp EXCEPT ![c] = "unreg"]
    /\ UNCHANGED <<clients, broadcast, send, closed, wp, nsent, wrote, regAt>>
    /\ UNCHANGED <<storeVars, readVars, updVars, streamVars, workVars>>
    /\ UNCHANGED busVars
    /\ UNCHANGED <<seedVars, lifeVars, queryVars, raceVars, regVars>>

\* An unregister case that closes the channel and leaves the client in
\* the map.
HubUnregisterKeep(c) ==
    /\ rp[c] = "unreg"
    /\ rp' = [rp EXCEPT ![c] = "exit"]
    /\ closed' = [closed EXCEPT ![c] = closed[c] \/ c \in clients]
    /\ nclose' = [nclose EXCEPT ![c] = IF c \in clients THEN @ + 1 ELSE @]
    /\ UNCHANGED count
    /\ UNCHANGED <<clients, broadcast, send, wp, nsent, wrote, regAt>>
    /\ UNCHANGED <<storeVars, readVars, updVars, streamVars, workVars>>
    /\ UNCHANGED busVars
    /\ UNCHANGED <<seedVars, lifeVars, queryVars, raceVars>>

\* An unregister case without the membership test: it closes the channel
\* of whatever client it receives.
HubUnregisterAlways(c) ==
    /\ rp[c] = "unreg"
    /\ rp' = [rp EXCEPT ![c] = "exit"]
    /\ clients' = clients \ {c}
    /\ closed' = [closed EXCEPT ![c] = TRUE]
    /\ nclose' = [nclose EXCEPT ![c] = @ + 1]
    /\ UNCHANGED count
    /\ UNCHANGED <<broadcast, send, wp, nsent, wrote, regAt>>
    /\ UNCHANGED <<storeVars, readVars, updVars, streamVars, workVars>>
    /\ UNCHANGED busVars
    /\ UNCHANGED <<seedVars, lifeVars, queryVars, raceVars>>

\* The unregister case of Hub.Run: a client still in the map is deleted
\* and its channel closed.
HubUnregister(c) ==
    /\ rp[c] = "unreg"
    /\ rp' = [rp EXCEPT ![c] = "exit"]
    /\ clients' = clients \ {c}
    /\ closed' = [closed EXCEPT ![c] = closed[c] \/ c \in clients]
    /\ nclose' = [nclose EXCEPT ![c] = IF c \in clients THEN @ + 1 ELSE @]
    /\ UNCHANGED count
    /\ UNCHANGED <<broadcast, send, wp, nsent, wrote, regAt>>
    /\ UNCHANGED <<storeVars, readVars, updVars, streamVars, workVars>>
    /\ UNCHANGED busVars
    /\ UNCHANGED <<seedVars, lifeVars, queryVars, raceVars>>

NextHub ==
    \/ \E c \in HubClients : HandleWebSocket(c)
    \/ BroadcastScoreUpdate
    \/ HubBroadcast
    \/ \E c \in HubClients : WritePumpSend(c)
    \/ \E c \in HubClients : WritePumpClosed(c)
    \/ \E c \in HubClients : WritePumpFail(c)
    \/ \E c \in HubClients : WritePumpWriteFail(c)
    \/ \E c \in HubClients : ReadPumpExit(c)
    \/ \E c \in HubClients : HubUnregister(c)

SpecHub == Init /\ [][NextHub]_vars

\* The hub and the write pumps scheduled fairly: Hub.Run and WritePump
\* are loops that take whatever their channels hold.
SpecHubFair ==
    /\ SpecHub
    /\ WF_vars(HubBroadcast)
    /\ \A c \in HubClients : WF_vars(WritePumpSend(c))

\* The hub keeps serving its unregister channel, and the connection that
\* WritePump closed on its way out fails the ReadMessage of ReadPump.
SpecHubLife ==
    /\ SpecHub
    /\ \A c \in HubClients : WF_vars(HubUnregister(c))
    /\ \A c \in HubClients : WF_vars(wp[c] = "exit" /\ ReadPumpExit(c))

\* Moreover WritePump keeps receiving from Client.send: it takes a queued
\* message, whose write succeeds or fails, and it sees the closed channel
\* once the queue is empty.
SpecHubTasks ==
    /\ SpecHubLife
    /\ \A c \in HubClients :
          WF_vars(WritePumpSend(c) \/ WritePumpWriteFail(c))
    /\ \A c \in HubClients : WF_vars(WritePumpClosed(c))

\* Hub.GetClientCount: len(h.clients) under the read lock; the hub loop
\* changes the map only under the write lock, so the read is one step.
GetClientCount ==
    /\ count' = Cardinality(clients)
    /\ UNCHANGED nclose
    /\ UNCHANGED <<storeVars, readVars, updVars, streamVars, workVars,
                   hubVars, busVars>>
    /\ UNCHANGED <<seedVars, lifeVars, queryVars, raceVars>>

\* The hub with /ws/stats readers beside the connections and broadcasts.
NextRegistry ==
    \/ \E c \in HubClients : HandleWebSocket(c)
    \/ BroadcastScoreUpdate
    \/ HubBroadcast
    \/ \E c \in HubClients : WritePumpSend(c)
    \/ \E c \in HubClients : ReadPumpExit(c)
    \/ \E c \in HubClients : HubUnregister(c)
    \/ GetClientCount

SpecRegistry == Init /\ [][NextRegistry]_vars

(***************************************************************************)
(* The event bus: pubSubService.Start / Publish and main's handler         *)
(***************************************************************************)

\* Events published in the bus runs.
MaxEvents == 3

\* Payloads the instances publish: a rise inside a tie and a fall by one
\* rank.
BusPayloads ==
    {BuildPayload([NoLocals EXCEPT !.userID = 9, !.username = 9,
                                   !.oldRating = 4900, !.newRating = 4950,
                                   !.oldRank = 2, !.newRank = 2]),
     BuildPayload([NoLocals EXCEPT !.userID = 11, !.username = 11,
                                   !.oldRating = 5000, !.newRating = 4900,
                                   !.oldRank = 1, !.newRank = 2])}

\* Redis PUBLISH: the message goes to every subscription in S.
Deliver(S, msg) ==
    [j \in Insts |-> IF j \in S THEN Append(subch[j], msg) ELSE subch[j]]

\* The live subscriptions.
LiveSubs == {j \in Insts : sub[j] = "live"}

\* pubSubService.Start: subscribe to the channel and start the receiving
\* goroutine.
BusStart(i) ==
    /\ sub[i] = "off"
    /\ sub' = [sub EXCEPT ![i] = "live"]
    /\ subAt' = [subAt EXCEPT ![i] = Len(events)]
    /\ UNCHANGED <<subch, handed>>
    /\ UNCHANGED <<storeVars, readVars, updVars, streamVars, workVars,
                   hubVars>>
    /\ UNCHANGED <<seedVars, lifeVars, queryVars, raceVars, regVars>>

\* A Publish that reaches every live subscription but the publisher's own.
BusPublishNoLoopback(i, payload, ok) ==
    /\ Len(events) < MaxEvents
    /\ ok
    /\ events' = Append(events, [cid |-> Len(events) + 1,
                                 data |-> MarshalPayload(payload)])
    /\ subch' = Deliver(LiveSubs \ {i},
                        [cid |-> Len(events) + 1,
                         data |-> MarshalPayload(payload)])
    /\ UNCHANGED <<sub, subAt, handed>>
    /\ UNCHANGED <<upc, ul, ncalls, returned, zlog, faults>>
    /\ UNCHANGED <<storeVars, readVars, streamVars, workVars, hubVars>>
    /\ UNCHANGED reqOf
    /\ UNCHANGED <<seedVars, lifeVars, queryVars, raceVars, regVars>>

\* pubSubService.Publish on instance i: json.Marshal, then PUBLISH, which
\* Redis delivers to every live subscription, the publisher's included; on
\* an error nothing is published.
BusPublish(i, payload, ok) ==
    /\ Len(events) < MaxEvents
    /\ Outcome(ok)
    /\ IF ok
       THEN /\ events' = Append(events, [cid |-> Len(events) + 1,
                                         data |-> MarshalPayload(payload)])
            /\ subch' = Deliver(LiveSubs,
                                [cid |-> Len(events) + 1,
                                 data |-> MarshalPayload(payload)])
       ELSE UNCHANGED <<events, subch>>
    /\ UNCHANGED <<sub, subAt, handed>>
    /\ UNCHANGED <<upc, ul, ncalls, returned, zlog>>
    /\ UNCHANGED <<storeVars, readVars, streamVars, workVars, hubVars>>
    /\ UNCHANGED reqOf
    /\ UNCHANGED <<seedVars, lifeVars, queryVars, raceVars, regVars>>

\* json.Unmarshal into a ScoreUpdatePayload fails when the text of an
\* integer field is no number.
PayloadJSONError(d) ==
    \E f \in {"user_id", "old_rating", "new_rating", "old_rank", "new_rank",
               "rank_delta", "rating_delta"} : d[f].digits = <<>>

\* A receiving goroutine that returns on a message it cannot unmarshal.
BusHandleReturn(i) ==
    /\ sub[i] = "live"
    /\ subch[i] # <<>>
    /\ IF PayloadJSONError(Head(subch[i]).data)
       THEN /\ sub' = [sub EXCEPT ![i] = "stopped"]
            /\ UNCHANGED <<handed, broadcast, nsent>>
       ELSE LET payload == UnmarshalPayload(Head(subch[i]).data)
            IN /\ handed' = [handed EXCEPT ![i] = Append(handed[i], payload)]
               /\ IF i = HubInst
                  THEN /\ Len(broadcast) < BroadcastCap
                       /\ broadcast' = Append(broadcast,
                                              MarshalMessage(payload))
                       /\ nsent' = nsent + 1
                  ELSE UNCHANGED <<broadcast, nsent>>
               /\ UNCHANGED sub
    /\ subch' = [subch EXCEPT ![i] = Tail(subch[i])]
    /\ UNCHANGED subAt
    /\ UNCHANGED <<clients, send, closed, wp, rp, wrote, regAt>>
    /\ UNCHANGED <<storeVars, readVars, updVars, streamVars, workVars>>
    /\ UNCHANGED <<seedVars, lifeVars, queryVars, raceVars, regVars>>

\* The goroutine of Start takes a message from the subscription's channel
\* and unmarshals it; a message that does not unmarshal is logged and
\* passed over; otherwise the handler is called, which main sets to
\* hub.BroadcastScoreUpdate: the send on Hub.broadcast blocks while that
\* channel is full.
BusHandle(i) ==
    /\ sub[i] = "live"
    /\ subch[i] # <<>>
    /\ IF PayloadJSONError(Head(subch[i]).data)
       THEN UNCHANGED <<handed, broadcast, nsent>>
       ELSE LET payload == UnmarshalPayload(Head(subch[i]).data)
            IN /\ handed' = [handed EXCEPT ![i] = Append(handed[i], payload)]
               /\ IF i = HubInst
                  THEN /\ Len(broadcast) < BroadcastCap
                       /\ broadcast' = Append(broadcast,
                                              MarshalMessage(payload))
                       /\ nsent' = nsent + 1
                  ELSE UNCHANGED <<broadcast, nsent>>
    /\ subch' = [subch EXCEPT ![i] = Tail(subch[i])]
    /\ UNCHANGED <<sub, subAt>>
    /\ UNCHANGED <<clients, send, closed, wp, rp, wrote, regAt>>
    /\ UNCHANGED <<storeVars, readVars, updVars, streamVars, workVars>>
    /\ UNCHANGED <<seedVars, lifeVars, queryVars, raceVars, regVars>>

\* pubSubService.Stop: the context is cancelled, the goroutine returns and
\* closes the subscription; what it had not taken is dropped.
BusStop(i) ==
    /\ sub[i] = "live"
    /\ sub' = [sub EXCEPT ![i] = "stopped"]
    /\ subch' = [subch EXCEPT ![i] = <<>>]
    /\ UNCHANGED <<subAt, handed>>
    /\ UNCHANGED <<storeVars, readVars, updVars, streamVars, workVars,
                   hubVars>>
    /\ UNCHANGED <<seedVars, lifeVars, queryVars, raceVars, regVars>>

\* The connections to instance HubInst in the bus runs.
BusClients == {1}

\* Two instances on one bus; the clients of instance HubInst.
NextBus ==
    \/ \E i \in Insts : BusStart(i)
    \/ \E i \in Insts, payload \in BusPayloads, ok \in BOOLEAN :
          BusPublish(i, payload, ok)
    \/ \E i \in Insts : BusHandle(i)
    \/ \E i \in Insts : BusStop(i)
    \/ \E c \in BusClients : HandleWebSocket(c)
    \/ HubBroadcast
    \/ \E c \in BusClients : WritePumpSend(c)
    \/ \E c \in BusClients : WritePumpFail(c)

SpecBus == Init /\ [][NextBus]_vars

\* The receiving goroutines and the hub keep running.
SpecBusFair ==
    /\ SpecBus
    /\ \A i \in Insts : WF_vars(BusHandle(i))
    /\ WF_vars(HubBroadcast)

\* A bus message whose text is not a ScoreUpdatePayload.
PoisonPayload ==
    [MarshalPayload(BuildPayload(NoLocals)) EXCEPT !.user_id = Garbage]

\* Another Redis client publishes on the channel a message that the
\* subscribers cannot unmarshal.
BusPublishForeign ==
    /\ Len(events) < MaxEvents
    /\ events' = Append(events, [cid |-> Len(events) + 1,
                                 data |-> PoisonPayload])
    /\ subch' = Deliver(LiveSubs, [cid |-> Len(events) + 1,
                                   data |-> PoisonPayload])
    /\ UNCHANGED <<sub, subAt, handed>>
    /\ UNCHANGED <<upc, ul, ncalls, returned, zlog, faults, reqOf>>
    /\ UNCHANGED <<storeVars, readVars, streamVars, workVars, hubVars>>
    /\ UNCHANGED <<seedVars, lifeVars, queryVars, raceVars, regVars>>

\* Two instances on one bus that also carries foreign messages.
NextBusPoison ==
    \/ \E i \in Insts : BusStart(i)
    \/ \E i \in Insts, payload \in BusPayloads :
          BusPublish(i, payload, TRUE)
    \/ BusPublishForeign
    \/ \E i \in Insts : BusHandle(i)
    \/ \E i \in Insts : BusStop(i)
    \/ HubBroadcast

\* The receiving goroutines and the hub keep running.
SpecBusPoison ==
    /\ Init
    /\ [][NextBusPoison]_vars
    /\ \A i \in Insts : WF_vars(BusHandle(i))
    /\ WF_vars(HubBroadcast)

(***************************************************************************)
(* Shutdown of the server process: main, the write-behind worker and the   *)
(* subscriber goroutine                                                    *)
(***************************************************************************)

\* main receives the signal and srv.Shutdown returns: main returns and
\* its deferred calls run, last deferred first.
MainShutdown ==
    /\ mainpc = "serving"
    /\ sub[HubInst] = "live"
    /\ mainpc' = "stopsync"
    /\ UNCHANGED <<stopCh, wlate>>
    /\ UNCHANGED <<storeVars, readVars, updVars, streamVars, workVars,
                   hubVars, busVars>>
    /\ UNCHANGED <<seedVars, queryVars, raceVars, regVars>>

\* dbSyncService.Stop: close(stopCh), and nothing else.  An idle worker
\* is either before its select or already blocked in XREADGROUP (late).
DBSyncStop(late) ==
    /\ mainpc = "stopsync"
    /\ mainpc' = "stoppubsub"
    /\ stopCh' = TRUE
    /\ wlate' = (late /\ wpc = "idle")
    /\ UNCHANGED <<storeVars, readVars, updVars, streamVars, workVars,
                   hubVars, busVars>>
    /\ UNCHANGED <<seedVars, queryVars, raceVars, regVars>>

\* pubSubService.Stop: cancel the context of the running subscriber.
PubSubStop ==
    /\ mainpc = "stoppubsub"
    /\ mainpc' = "return"
    /\ sub' = [sub EXCEPT ![HubInst] =
                  IF sub[HubInst] = "live" THEN "stopping" ELSE @]
    /\ UNCHANGED <<subAt, subch, handed>>
    /\ UNCHANGED <<stopCh, wlate>>
    /\ UNCHANGED <<storeVars, readVars, updVars, streamVars, workVars,
                   hubVars>>
    /\ UNCHANGED <<seedVars, queryVars, raceVars, regVars>>

\* The subscriber goroutine takes the ctx.Done case and returns, closing
\* the subscription.
BusExit(i) ==
    /\ sub[i] = "stopping"
    /\ sub' = [sub EXCEPT ![i] = "stopped"]
    /\ subch' = [subch EXCEPT ![i] = <<>>]
    /\ UNCHANGED <<subAt, handed>>
    /\ UNCHANGED <<storeVars, readVars, updVars, streamVars, workVars,
                   hubVars>>
    /\ UNCHANGED <<seedVars, lifeVars, queryVars, raceVars, regVars>>

\* The worker's select finds stopCh closed, at once or after the blocked
\* XREADGROUP of a late worker has timed out with nothing read: worker
\* returns.
WorkerStopped ==
    /\ wpc = "idle"
    /\ stopCh
    /\ ~wlate \/ XReadGroupNew(stream, lastDelivered, BatchSize) = <<>>
    /\ wpc' = "stopped"
    /\ UNCHANGED <<batch, batchCounter, trims, committed, failedIds,
                   lostIds, dbFails, crashes>>
    /\ wlate' = FALSE
    /\ UNCHANGED <<mainpc, stopCh>>
    /\ UNCHANGED <<storeVars, readVars, updVars, streamVars, hubVars,
                   busVars>>
    /\ UNCHANGED <<seedVars, queryVars, raceVars, regVars>>

\* The process exits: main has returned after the deferred calls, which
\* wait for no goroutine.  Every
\* goroutine ends where it is: the calls in progress, and the worker with
\* the batch it holds.  Redis and the cold store keep their state.
MainExit ==
    /\ mainpc = "return"
    /\ mainpc' = "exited"
    /\ lostIds' = lostIds \cup Ids(batch)
    /\ batch' = <<>>
    /\ trims' = 0
    /\ wpc' = IF wpc = "stopped" THEN "stopped" ELSE "down"
    /\ sub' = [sub EXCEPT ![HubInst] = "stopped"]
    /\ subch' = [subch EXCEPT ![HubInst] = <<>>]
    /\ UNCHANGED <<subAt, handed>>
    /\ upc' = [p \in Procs |-> "idle"]
    /\ ul' = [p \in Procs |-> NoLocals]
    /\ UNCHANGED <<ncalls, events, returned, zlog, faults, reqOf>>
    /\ UNCHANGED <<stopCh, wlate>>
    /\ UNCHANGED <<batchCounter, committed, failedIds, dbFails, crashes>>
    /\ UNCHANGED <<storeVars, readVars, streamVars, hubVars>>
    /\ UNCHANGED <<seedVars, queryVars, raceVars, regVars>>

\* A request for update_score reaches the server while it serves.
ServeUpdate(userID, requested) ==
    /\ mainpc = "serving"
    /\ UBegin(1, userID, requested, MaxCalls, TRUE)

\* The server from its start to its exit: update_score calls while it
\* serves, the worker and the subscriber until the process is gone.
NextShutdown ==
    \/ BusStart(HubInst)
    \/ ServeUpdate(11, 4950)
    \/ UStep(1, {TRUE})
    \/ WorkerRead
    \/ \E k \in 0 .. BatchSize : WorkerTx(k)
    \/ WorkerAck
    \/ TrimStream
    \/ MainShutdown
    \/ \E late \in BOOLEAN : DBSyncStop(late)
    \/ PubSubStop
    \/ BusExit(HubInst)
    \/ WorkerStopped
    \/ MainExit

SpecShutdown == Init /\ [][NextShutdown]_vars

(***************************************************************************)
(* Properties of the rank store                                            *)
(***************************************************************************)

\* Rank of u as the data model defines it: one more than the number of
\* members with a strictly greater score.
TrueRank(z, u) == 1 + Cardinality({m \in DOMAIN z : z[m] > z[u]})

\* The members tied with u.
TieGroup(z, u) == {m \in DOMAIN z : z[m] = z[u]}

\* v carries the next lower distinct score after u's.
NextLower(z, u, v) ==
    /\ z[v] < z[u]
    /\ ~ \E m \in DOMAIN z : z[v] < z[m] /\ z[m] < z[u]

\* The results of GetUserRank that no write interfered with.
CleanRanks == {u \in DOMAIN ranks : ~ranks[u].dirty}

\* C1: with no write in flight, rank_of(U) of a member U is 1 + the number
\* of members with a strictly greater score; for a user absent from the
\* sorted set it fails (NotFound) and returns no rank.
C1_RankOf ==
    \A u \in CleanRanks :
        IF u \in DOMAIN zset
        THEN ~ranks[u].err /\ ranks[u].rank = TrueRank(zset, u)
        ELSE ranks[u].err /\ ranks[u].rank = 0

\* C1 witness: a member tied with another one was ranked 2, and a lookup
\* of an absent user failed.
C1_Witness ==
    /\ \E u \in CleanRanks :
          /\ u \in DOMAIN zset
          /\ ranks[u].rank = 2
          /\ TieGroup(zset, u) # {u}
    /\ \E w \in CleanRanks : w \notin DOMAIN zset /\ ranks[w].err

\* C2: two members with equal ratings get the same rank from rank_of, and
\* the same rank in a top(N) result that contains both.
C2_TieCorrect ==
    /\ \A u, v \in CleanRanks \cap DOMAIN zset :
          zset[u] = zset[v] => ranks[u].rank = ranks[v].rank
    /\ \A i, j \in DOMAIN topres.entries :
          LET a == topres.entries[i]
              b == topres.entries[j]
          IN (a.UserID \in DOMAIN zset /\ b.UserID \in DOMAIN zset
              /\ zset[a.UserID] = zset[b.UserID]) => a.Rank = b.Rank

\* C2 witness: a top(N) result whose second and third entries are two
\* different members tied at rank 2.
C2_Witness ==
    /\ topres.called
    /\ Len(topres.entries) >= 3
    /\ topres.entries[2].Rank = 2
    /\ topres.entries[3].Rank = 2
    /\ topres.entries[2].UserID # topres.entries[3].UserID
    /\ topres.entries[2].Rating = topres.entries[3].Rating

\* C3: if exactly k members tie at rank r, the members with the next
\* lower distinct rating have rank r + k, in rank_of and in every top(N)
\* result that contains them.
C3_GapCorrect ==
    /\ \A u, v \in CleanRanks \cap DOMAIN zset :
          NextLower(zset, u, v) =>
              ranks[v].rank = ranks[u].rank + Cardinality(TieGroup(zset, u))
    /\ \A i, j \in DOMAIN topres.entries :
          LET a == topres.entries[i]
              b == topres.entries[j]
          IN (a.UserID \in DOMAIN zset /\ b.UserID \in DOMAIN zset
              /\ NextLower(zset, a.UserID, b.UserID)) =>
                 b.Rank = a.Rank + Cardinality(TieGroup(zset, a.UserID))

\* C3 witness: a top(N) result with ranks 1, 2, 2, 4 (k = 2 at r = 2).
C3_Witness ==
    /\ Len(topres.entries) = 4
    /\ topres.entries[1].Rank = 1
    /\ topres.entries[2].Rank = 2
    /\ topres.entries[3].Rank = 2
    /\ topres.entries[4].Rank = 4
(***************************************************************************)
(* Properties of the update path and of the write-behind pipeline          *)
(***************************************************************************)

\* The sorted set holds the write of call c for user u, or a write for u
\* that Redis ran after it.
HoldsUpdateOrLater(c, u, rating) ==
    \E i \in DOMAIN zlog :
        /\ zlog[i].cid = c /\ zlog[i].userID = u /\ zlog[i].rating = rating
        /\ u \in DOMAIN zset
        /\ \E j \in i .. Len(zlog) :
              zlog[j].userID = u /\ zset[u] = zlog[j].rating

\* C4: whenever a published event, an enqueued write-behind item or a
\* returned event of an update exists, the sorted-set write of that update
\* has already been made: the sorted set holds its rating or that of a
\* later write for the same user.
C4_WriteFirst ==
    /\ \A k \in DOMAIN events :
          LET pl == UnmarshalPayload(events[k].data)
          IN HoldsUpdateOrLater(events[k].cid, pl.UserID, pl.NewRating)
    /\ \A k \in DOMAIN stream :
          LET it == UnmarshalItem(stream[k].data)
          IN HoldsUpdateOrLater(stream[k].cid, it.UserID, it.NewRating)
    /\ \A r \in returned :
          r.err = "" =>
              HoldsUpdateOrLater(r.cid, r.userID, r.payload.NewRating)

\* C4 witness: an event and an item of one update exist while the sorted
\* set already holds the rating of a later update of the same user.
C4_Witness ==
    \E k \in DOMAIN events, n \in DOMAIN stream :
        LET pl == UnmarshalPayload(events[k].data)
        IN /\ stream[n].cid = events[k].cid
           /\ pl.UserID \in DOMAIN zset
           /\ zset[pl.UserID] # pl.NewRating

\* C5 (as claimed): every update that update_score returned successfully
\* is applied to the cold store, or superseded there by a later update of
\* the same user, or still present and unacknowledged in the stream.
C5_NoSilentDrop ==
    \A r \in returned :
        r.err = "" =>
            \/ r.item \in committed
            \/ \E q \in returned :
                  /\ q.err = "" /\ q.userID = r.userID /\ q.cid > r.cid
                  /\ q.item \in committed
            \/ r.item \in Ids(stream) /\ Unacked(r.item)

\* C6 (as claimed): every entry of a batch whose transaction failed is
\* eventually applied to the cold store and acknowledged.
C6_FailedBatchRetried ==
    \A id \in 1 .. MaxPipeCalls :
        (id \in failedIds) ~> (id \in committed /\ id \notin pel)

\* The latest item enqueued for user u, as (id, rating) of the call that
\* enqueued it.
LatestItem(u) ==
    CHOOSE r \in returned :
        /\ r.userID = u /\ r.item > 0
        /\ \A o \in returned : o.userID = u => o.item <= r.item

\* The stream is drained: nothing unread and nothing pending.
Drained ==
    /\ Unread(stream, lastDelivered) = <<>>
    /\ pel = {}

\* The cold store holds, for every user with an enqueued item, the
\* new_rating of the user's latest enqueued item.
ColdLatest ==
    \A r \in returned :
        r.item > 0 =>
            cold[r.userID].Rating = LatestItem(r.userID).payload.NewRating

\* C7 (as claimed): the entries the worker held when it crashed are
\* delivered to it again after the restart, and the stream gets drained
\* with the cold store holding each updated user's latest new_rating.
C7_CrashRedelivery ==
    /\ \A id \in 1 .. MaxPipeCalls :
          (id \in lostIds) ~> (id \in Ids(batch))
    /\ (lostIds # {}) ~> (Drained /\ ColdLatest)

\* C8: an entry leaves the pending list (XACK) only when the transaction
\* of its batch has committed; a failed transaction acknowledges nothing
\* and changes no row of the cold store.
C8_AckAfterCommit ==
    [][/\ \A id \in pel \ pel' : id \in committed
       /\ (wpc = "tx" /\ wpc' = "idle") =>
              (pel' = pel /\ cold' = cold /\ history' = history)]_vars

\* C8 witness: a batch of two failed, and another batch was committed and
\* acknowledged.
C8_Witness ==
    /\ Cardinality(failedIds) = 2
    /\ \E id \in committed : id \notin pel /\ id \notin failedIds

\* C9 (as claimed): a trim removes no entry that is unacknowledged,
\* whether not yet read or read and still pending.
C9_TrimKeepsUnacked ==
    [][\A id \in Ids(stream) \ Ids(stream') : ~Unacked(id)]_vars

(***************************************************************************)
(* Properties of the hub                                                   *)
(***************************************************************************)

\* A step of the hub that takes a message off Hub.broadcast.
BroadcastStep == broadcast # <<>> /\ broadcast' = Tail(broadcast)

\* C10: when the hub processes a broadcast, in that one step every
\* registered client whose queue is full leaves the registry with its
\* queue closed, and every registered client with free space stays
\* registered with the message appended to its queue; and whatever the
\* clients do, a message waiting in Hub.broadcast can be processed at
\* once: the hub never waits on a client.
C10_SlowConsumer ==
    /\ [][BroadcastStep =>
            \A c \in clients :
                IF Len(send[c]) >= SendCap
                THEN /\ c \notin clients'
                     /\ closed'[c]
                     /\ send'[c] = send[c]
                ELSE /\ c \in clients'
                     /\ ~closed'[c]
                     /\ send'[c] = Append(send[c], Head(broadcast))]_vars
    /\ [](broadcast # <<>> => ENABLED HubBroadcast)

\* A client that stopped reading was evicted by a broadcast (its queue is
\* full and closed while its ReadPump still runs), and another client,
\* still registered, holds a later message than any the evicted one got.
C10_Witness ==
    \E c \in HubClients, d \in clients :
        /\ closed[c]
        /\ rp[c] = "run"
        /\ wp[c] = "exit"
        /\ Len(send[c]) = SendCap
        /\ send[d] # <<>>
        /\ send[d][Len(send[d])].Payload > send[c][SendCap].Payload

\* The k messages the hub processed after the first n, in its order.
ProcessedRun(n, k) == [i \in 1 .. k |-> MarshalMessage(n + i)]

\* Message number n waits in the queue of client c.
Queued(c, n) == \E i \in DOMAIN send[c] : send[c][i] = MarshalMessage(n)

\* Client c has received frame number n.
Received(c, n) == \E i \in DOMAIN wrote[c] : wrote[c][i] = MarshalMessage(n)

\* C11: the frames a client has received are the broadcasts the hub
\* processed from its registration on, in the hub's order, with no gap and
\* no duplicate; for a registered client whose pump runs, every broadcast
\* processed since its registration is received or waits in its queue, and
\* a queued one is eventually received unless the pump stops; a broadcast
\* removes a registered client exactly when it finds its queue full.
C11_OrderedDelivery ==
    /\ [](\A c \in HubClients :
            /\ wrote[c] = ProcessedRun(regAt[c], Len(wrote[c]))
            /\ (c \in clients /\ wp[c] = "run") =>
                  wrote[c] \o send[c] =
                      ProcessedRun(regAt[c], HubProcessed - regAt[c]))
    /\ [][BroadcastStep =>
            \A c \in clients :
                (c \notin clients') <=> (Len(send[c]) >= SendCap)]_vars
    /\ \A c \in HubClients, n \in 1 .. MaxBroadcasts :
          Queued(c, n) ~> (Received(c, n) \/ wp[c] = "exit")

\* One client received every broadcast in order while the other, which
\* stopped reading after its first frame, was evicted with a full queue.
C11_Witness ==
    \E c \in HubClients, d \in HubClients :
        /\ c \in clients /\ wp[c] = "run"
        /\ Len(wrote[c]) = MaxBroadcasts
        /\ closed[d] /\ rp[d] = "run" /\ wp[d] = "exit"
        /\ Len(wrote[d]) = 1
        /\ Len(send[d]) = SendCap

(***************************************************************************)
(* Properties of the event bus                                             *)
(***************************************************************************)

\* The payloads of a sequence of bus messages.
Payloads(msgs) == [k \in DOMAIN msgs |-> UnmarshalPayload(msgs[k].data)]

\* The events published since instance i subscribed.
EventsSince(i) == SubSeq(events, subAt[i] + 1, Len(events))

\* The frames the hub of HubInst was given, in order.
HubFrames == [k \in DOMAIN handed[HubInst] |->
                 MarshalMessage(handed[HubInst][k])]

\* C12: for every instance with a live subscription, the payloads handed
\* to its handler followed by those waiting in its subscription are the
\* events published since it subscribed, each once and whoever published
\* it, and again and again nothing is left waiting while the subscription
\* lives, so a waiting one is handed over; a registered client whose pump runs has, received or queued,
\* exactly one frame for each event handed over since its registration.
C12_ExactlyOnce ==
    /\ [](\A i \in Insts :
            sub[i] = "live" =>
                handed[i] \o Payloads(subch[i]) = Payloads(EventsSince(i)))
    /\ [](\A c \in clients :
            wp[c] = "run" =>
                wrote[c] \o send[c] =
                    SubSeq(HubFrames, regAt[c] + 1, HubProcessed))
    /\ \A i \in Insts : []<>(sub[i] # "live" \/ subch[i] = <<>>)

\* Both instances are subscribed and were handed all MaxEvents events,
\* which both of them published, and a client of the hub received them all.
C12_Witness ==
    /\ \A i \in Insts : sub[i] = "live" /\ Len(handed[i]) = MaxEvents
    /\ Len(events) = MaxEvents
    /\ \E c \in clients : Len(wrote[c]) = MaxEvents

(***************************************************************************)
(* Properties of update_score                                              *)
(***************************************************************************)

\* The rating update_score has to record for a requested rating.
Recorded(requested) ==
    IF requested < 100 THEN 100
    ELSE IF requested > 5000 THEN 5000 ELSE requested

\* The step is the cache write of the call of goroutine p.
CacheWriteBy(p) ==
    upc[p] = "cacheput" /\ upc'[p] = "newscore" /\ cache' # cache

\* C13: the rating a call writes to the sorted set, the rating in its
\* event, in its returned payload and in its write-behind item, and the
\* rating it writes to the attribute cache, are the requested rating
\* brought into [100, 5000]: 100 below, 5000 above, itself inside.
C13_Clamp ==
    /\ [](/\ \A k \in DOMAIN zlog :
               /\ zlog[k].rating = Recorded(reqOf[zlog[k].cid])
               /\ \E j \in k .. Len(zlog) :
                     /\ zlog[j].userID = zlog[k].userID
                     /\ ZScore(zset, zlog[k].userID).score = zlog[j].rating
          /\ \A k \in DOMAIN events :
               UnmarshalPayload(events[k].data).NewRating =
                   Recorded(reqOf[events[k].cid])
          /\ \A k \in DOMAIN stream :
               UnmarshalItem(stream[k].data).NewRating =
                   Recorded(reqOf[stream[k].cid])
          /\ \A r \in returned :
               r.err = "" => r.payload.NewRating = Recorded(reqOf[r.cid]))
    /\ [][\A p \in Procs :
            CacheWriteBy(p) =>
                GetCachedUser(cache', ul[p].userID).Rating =
                    Recorded(reqOf[ul[p].cid])]_vars

\* One call asked for 50 and one for 5100: the first has its event with
\* new_rating 100, the second its item with new_rating 5000, and the
\* sorted set and the cache hold 100 and 5000 for their users.
C13_Witness ==
    \E k \in DOMAIN events, n \in DOMAIN stream :
        LET pl == UnmarshalPayload(events[k].data)
            it == UnmarshalItem(stream[n].data)
        IN /\ reqOf[events[k].cid] = 50 /\ pl.NewRating = 100
           /\ reqOf[stream[n].cid] = 5100 /\ it.NewRating = 5000
           /\ pl.UserID # it.UserID
           /\ ZScore(zset, pl.UserID).score = 100
           /\ ZScore(zset, it.UserID).score = 5000
           /\ GetCachedUser(cache, pl.UserID).Rating = 100
           /\ GetCachedUser(cache, it.UserID).Rating = 5000

\* A rating inside the valid range.
InRange(rating) == rating >= 100 /\ rating <= 5000

\* C14: every rating held in the sorted set, the attribute cache, the
\* write-behind stream, the users and score_updates rows of the cold store
\* and the published events is within [100, 5000].
C14_RatingsInRange ==
    /\ \A u \in DOMAIN zset : InRange(ZScore(zset, u).score)
    /\ \A u \in DOMAIN cache : InRange(GetCachedUser(cache, u).Rating)
    /\ \A u \in DOMAIN cold : InRange(GetByID(cold, u).Rating)
    /\ \A k \in DOMAIN stream :
          LET it == UnmarshalItem(stream[k].data)
          IN InRange(it.OldRating) /\ InRange(it.NewRating)
    /\ \A k \in DOMAIN events :
          LET pl == UnmarshalPayload(events[k].data)
          IN InRange(pl.OldRating) /\ InRange(pl.NewRating)
    /\ \A k \in DOMAIN history :
          InRange(history[k].OldRating) /\ InRange(history[k].NewRating)

\* Requests for 50 and for 5100 went through: the cold store holds the
\* committed 5000 of one user, the sorted set the 100 of the other, and a
\* cache fill from the cold store is under way.
C14_Witness ==
    /\ fill # NoFill
    /\ \E c \in DOMAIN reqOf, d \in DOMAIN reqOf :
          /\ reqOf[c] = 50 /\ reqOf[d] = 5100
          /\ \E k \in DOMAIN zlog :
                zlog[k].cid = c /\ ZScore(zset, zlog[k].userID).score = 100
          /\ \E k \in DOMAIN history :
                /\ history[k].NewRating = 5000
                /\ GetByID(cold, history[k].UserID).Rating = 5000

\* The steps of UpdateUserScore that come after its cache write.
AfterCacheWrite == {"newscore", "newcount", "publish", "enqueue"}

\* No update of user u later than call c has reached its cache write.
NoLaterCacheWrite(u, c) ==
    /\ \A q \in returned :
          ~(q.err = "" /\ q.userID = u /\ q.cid > c)
    /\ \A p \in Procs :
          ~(ul[p].userID = u /\ ul[p].cid > c /\ upc[p] \in AfterCacheWrite)

\* C15 (as claimed): after update_score for a user returned successfully,
\* the attribute cache of the user reports the new rating, until a later
\* update_score for that user writes the cache.
C15_CacheCoherent ==
    \A r \in returned :
        (r.err = "" /\ NoLaterCacheWrite(r.userID, r.cid)) =>
            /\ ~GetCachedUser(cache, r.userID).err
            /\ GetCachedUser(cache, r.userID).Rating = r.payload.NewRating

\* The deltas of a payload agree with its ratings and ranks.
DeltasAgree(pl) ==
    /\ pl.RatingDelta = pl.NewRating - pl.OldRating
    /\ pl.OldRank > 0 => pl.RankDelta = pl.OldRank - pl.NewRank

\* C16: in every event published and in every event returned by
\* update_score, rating_delta = new_rating - old_rating and, when
\* old_rank > 0, rank_delta = old_rank - new_rank.
C16_Deltas ==
    /\ \A k \in DOMAIN events : DeltasAgree(UnmarshalPayload(events[k].data))
    /\ \A r \in returned : r.err = "" => DeltasAgree(r.payload)

\* The two examples: B, tied at rank 2, was raised to 4950 and stayed at
\* rank 2 with rank_delta 0; then C, at rank 3, was raised into the tie at
\* rank 1 with rank_delta 2.
C16_Witness ==
    \E j \in DOMAIN events, k \in DOMAIN events :
        LET b == UnmarshalPayload(events[j].data)
            cc == UnmarshalPayload(events[k].data)
        IN /\ j < k
           /\ b.OldRating = 4900 /\ b.NewRating = 4950 /\ b.RatingDelta = 50
           /\ b.OldRank = 2 /\ b.NewRank = 2 /\ b.RankDelta = 0
           /\ cc.UserID # b.UserID
           /\ cc.OldRating = 4900 /\ cc.NewRating = 5000
           /\ cc.RatingDelta = 100
           /\ cc.OldRank = 3 /\ cc.NewRank = 1 /\ cc.RankDelta = 2
           /\ \E r \in returned : r.err = "" /\ r.payload = cc

\* Call c left a trace: a sorted-set write, an event or a stream entry.
Traced(c) ==
    \/ \E k \in DOMAIN zlog : zlog[k].cid = c
    \/ \E k \in DOMAIN events : events[k].cid = c
    \/ \E k \in DOMAIN stream : stream[k].cid = c

\* The step ends the call of goroutine p at its cold-store lookup.
NotFoundStep(p) == upc[p] = "getbyid" /\ upc'[p] = "idle"

\* C17: a call for a user that is in neither the cache nor the cold store
\* returns UserNotFound; such a call made no sorted-set write, published
\* no event and enqueued no item, the user has no sorted-set member and no
\* cache entry, and the step that fails the call changes no store.
C17_UnknownUser ==
    /\ [](\A r \in returned :
            /\ (r.userID \notin DOMAIN cold /\ r.userID \notin DOMAIN cache)
                   => r.err = "UserNotFound"
            /\ r.err = "UserNotFound" =>
                  /\ ~Traced(r.cid)
                  /\ ZScore(zset, r.userID).nil
                  /\ GetCachedUser(cache, r.userID).err)
    /\ [][\A p \in Procs :
            NotFoundStep(p) =>
                UNCHANGED <<zset, cache, cold, history, events, stream>>]_vars

\* A call for the unknown user 7 failed with UserNotFound after another
\* call had gone through.
C17_Witness ==
    /\ \E r \in returned : r.userID = 7 /\ r.err = "UserNotFound"
    /\ \E q \in returned : q.err = "" /\ Traced(q.cid)

\* The call of goroutine p leaves its sorted-set write without having
\* written.
ZAddFailedStep(p) ==
    upc[p] = "zadd" /\ upc'[p] # "zadd" /\ zlog' = zlog

\* C18: when the sorted-set write of a call fails, the call ends there
\* with an error, and the step changes neither the sorted set nor the
\* cache and publishes and enqueues nothing; a call that returned this
\* error has no sorted-set write, no event and no write-behind item.
C18_HotWriteFails ==
    /\ [][\A p \in Procs :
            ZAddFailedStep(p) =>
                /\ upc'[p] = "idle"
                /\ \E r \in returned' \ returned :
                      r.cid = ul[p].cid /\ r.err = "Redis"
                /\ UNCHANGED <<zset, cache, cold, history, events,
                               stream>>]_vars
    /\ [](\A r \in returned : r.err = "Redis" => ~Traced(r.cid))

\* The sorted-set write of one call failed and the call returned the
\* error, while the user's score and cache entry are those of the seed.
C18_Witness ==
    \E r \in returned :
        /\ r.err = "Redis"
        /\ r.userID = 9
        /\ ZScore(zset, 9).score = SeedRating(9)
        /\ GetCachedUser(cache, 9).Rating = SeedRating(9)
        /\ reqOf[r.cid] = 4950

\* The call of goroutine p leaves its publish step, its enqueue step.
PublishStep(p) == upc[p] = "publish" /\ upc'[p] # "publish"
EnqueueStep(p) == upc[p] = "enqueue" /\ upc'[p] # "enqueue"

\* C19: whether the publish succeeds or fails, the call goes on to the
\* enqueue; whether the enqueue succeeds or fails, the call returns its
\* event without an error, the sorted set holding the new rating (or that
\* of a later write for the user).
C19_SwallowedFailures ==
    [][\A p \in Procs :
          /\ PublishStep(p) =>
                upc'[p] = "enqueue" /\ returned' = returned
          /\ EnqueueStep(p) =>
                /\ upc'[p] = "idle"
                /\ \E r \in returned' \ returned :
                      /\ r.cid = ul[p].cid
                      /\ r.err = ""
                      /\ r.payload = BuildPayload(ul[p])
                /\ HoldsUpdateOrLater(ul[p].cid, ul[p].userID,
                                      ul[p].newRating)]_vars

\* A call whose publish failed returned its event, has its item in the
\* stream and its rating in the sorted set.
C19_Witness ==
    \E r \in returned :
        /\ r.err = ""
        /\ \A k \in DOMAIN events : events[k].cid # r.cid
        /\ \E n \in DOMAIN stream :
              /\ stream[n].cid = r.cid
              /\ UnmarshalItem(stream[n].data).NewRating
                     = r.payload.NewRating
        /\ ZScore(zset, r.userID).score = r.payload.NewRating

(***************************************************************************)
(* Order of application at the cold store                                  *)
(***************************************************************************)

\* The transaction of the batch the worker holds commits in this step.
BatchCommitStep == wpc = "tx" /\ wpc' = "ack"

\* The users with an item among items, and the last item of user u.
UsersOf(items) == {items[k].UserID : k \in DOMAIN items}
LastItemOf(items, u) ==
    items[CHOOSE k \in DOMAIN items :
              /\ items[k].UserID = u
              /\ \A j \in DOMAIN items : items[j].UserID = u => j <= k]

\* Within a batch: after the commit each user's rating in the cold store
\* is the new_rating of the user's last item in the batch.
BatchOrderKept ==
    [][BatchCommitStep =>
          \A u \in UsersOf(Items(batch)) :
              GetByID(cold', u).Rating
                  = LastItemOf(Items(batch), u).NewRating]_vars

\* C20 (as claimed): a committed batch leaves each user's cold-store
\* rating at the new_rating of the user's last item in the batch, and
\* across batches the cold store ends up, for every user, at the
\* new_rating of the user's most recently enqueued item.
C20_LastWriterWins ==
    /\ BatchOrderKept
    /\ <>[]ColdLatest

(***************************************************************************)
(* C21: in every reachable state a user is a member of the sorted set if   *)
(* and only if an attribute cache entry for that user exists, across the   *)
(* Redis sync, update_score, cache fills and removal.                      *)
(***************************************************************************)
C21_MemberIffCached ==
    \A u \in ColdUsers :
        u \in DOMAIN zset <=> ~GetCachedUser(cache, u).err

(***************************************************************************)
(* C22: top(limit) with limit <= 0 returns an empty sequence, whatever the *)
(* sorted set contains.                                                    *)
(***************************************************************************)
C22_NonPositiveLimitEmpty ==
    (topres.called /\ topres.limit <= 0) => topres.entries = <<>>

(***************************************************************************)
(* C23: for N >= 1, top(N) returns min(N, size) entries, namely the        *)
(* highest-scored members, with ratings non-increasing along the sequence; *)
(* two calls of top(N) with no write in between return the identical       *)
(* sequence, including the order inside each tie group.                    *)
(***************************************************************************)
Min(a, b) == IF a < b THEN a ELSE b

\* The users listed by the last top(N) result.
Listed == {topres.entries[i].UserID : i \in DOMAIN topres.entries}

\* The last top(N) result is a prefix of the members by descending score.
TopIsPrefix ==
    /\ Len(topres.entries) = Min(topres.limit, Cardinality(DOMAIN zset))
    /\ Cardinality(Listed) = Len(topres.entries)
    /\ \A i \in DOMAIN topres.entries :
          /\ topres.entries[i].UserID \in DOMAIN zset
          /\ topres.entries[i].Rating = zset[topres.entries[i].UserID]
    /\ \A i, j \in DOMAIN topres.entries :
          i < j => topres.entries[i].Rating >= topres.entries[j].Rating
    /\ \A m \in (DOMAIN zset) \ Listed :
          \A i \in DOMAIN topres.entries :
              zset[m] <= topres.entries[i].Rating

\* A second top(N) call with the same N and no write since the first one.
TopAgain ==
    /\ topres.called
    /\ topres'.called
    /\ topres'.limit = topres.limit
    /\ zset' = zset

Left(c) == rp[c] # "none" /\ c \notin clients

\* ReadPump of c has left its loop (read error), or WritePump of c has
\* returned (write error or write deadline).
PumpFailed(c) == rp[c] \in {"unreg", "exit"} \/ wp[c] = "exit"

C24_ClosedIsTerminal ==
    /\ [][\A c \in HubClients :
            Left(c) => /\ c \notin clients'
                       /\ closed'[c]
                       /\ \/ send'[c] = send[c]
                          \/ /\ send[c] # <<>>
                             /\ send'[c] = Tail(send[c])]_vars
    /\ [][BroadcastStep =>
            \A c \in clients : Len(send[c]) >= SendCap => Left(c)']_vars
    /\ \A c \in HubClients : []<>(~PumpFailed(c) \/ Left(c))

\* C24 witness: a client whose WritePump failed after it had received a
\* frame has left the registry through ReadPump's Unregister, and the hub
\* has processed broadcasts since that were not put in its queue.
C24_Witness ==
    \E c \in HubClients :
        /\ Left(c)
        /\ rp[c] = "exit"
        /\ wp[c] = "exit"
        /\ closed[c]
        /\ wrote[c] # <<>>
        /\ Len(send[c]) < SendCap
        /\ HubProcessed > regAt[c] + Len(wrote[c]) + Len(send[c]) + 1

(***************************************************************************)
(* C25: after the shutdown signal the write-behind worker and the fan-out  *)
(* subscriber each eventually exit, and a batch in flight at shutdown ends *)
(* in exactly one of two states: committed to the cold store and           *)
(* acknowledged, or not committed and not acknowledged.                    *)
(***************************************************************************)
\* The entry has been acknowledged: delivered and no longer pending.
Acked(id) == id <= lastDelivered /\ id \notin pel

C25_ShutdownBatchAtomic ==
    mainpc = "exited" =>
        /\ wpc \in {"stopped", "down"}
        /\ sub[HubInst] = "stopped"
        /\ \A id \in 1 .. lastDelivered : id \in committed <=> Acked(id)

(***************************************************************************)
(* C26: a score-update request over HTTP for a user id that exists nowhere *)
(* is answered with 404 (UserNotFound), and 500 is returned only when the  *)
(* rank-store write failed.                                                *)
(***************************************************************************)
\* The finished calls whose request passed the handler's binding.
Served == {r \in returned : BindRequest(reqOf[r.cid])}

C26_NotFoundIs404 ==
    \A r \in Served :
        /\ r.err = "UserNotFound" => HttpStatus(reqOf[r.cid], r.err) = 404
        /\ HttpStatus(reqOf[r.cid], r.err) = 500 => r.err = "Redis"

(***************************************************************************)
(* C27: search annotation returns exactly the candidates for which rank_of *)
(* succeeds, each annotated with the rank rank_of returned, in             *)
(* non-increasing order of rating; candidates whose rank cannot be         *)
(* determined are absent from the result, and an empty query yields an     *)
(* empty result.                                                           *)
(***************************************************************************)
\* The candidates of the last search whose rank_of call succeeded.
Ranked == {k \in DOMAIN sres.seen : ~sres.seen[k].err}

C27_SearchAnnotation ==
    sres.called =>
        /\ Len(sres.seen) = Len(sres.users)
        /\ Len(sres.results) = Cardinality(Ranked)
        /\ \A k \in Ranked :
              \E n \in DOMAIN sres.results :
                  /\ sres.results[n].UserID = sres.users[k].ID
                  /\ sres.results[n].UserID = sres.seen[k].ID
                  /\ sres.results[n].GlobalRank = sres.seen[k].rank
                  /\ sres.results[n].Username = sres.users[k].Username
                  /\ sres.results[n].Rating = sres.users[k].Rating
        /\ \A k \in (DOMAIN sres.seen) \ Ranked :
              \A n \in DOMAIN sres.results :
                  sres.results[n].UserID # sres.seen[k].ID
        /\ \A a, b \in DOMAIN sres.results :
              a < b => sres.results[a].Rating >= sres.results[b].Rating
        /\ sres.query = <<>> => sres.results = <<>>

\* C27 witness: a search with three candidates returned two of them, the
\* higher-rated one first, each with a rank, and dropped the third, whose
\* rank_of failed.
C27_Witness ==
    /\ sres.called
    /\ Len(sres.users) = 3
    /\ Len(sres.results) = 2
    /\ sres.results[1].Rating > sres.results[2].Rating
    /\ sres.results[1].GlobalRank >= 1
    /\ sres.results[2].GlobalRank >= 1
    /\ \E k \in DOMAIN sres.seen : sres.seen[k].err

(***************************************************************************)
(* C28: get_leaderboard(limit) returns the same sequence of (rank,         *)
(* user_id, rating) as top(limit) whether or not username hydration        *)
(* succeeds: an entry whose user is in neither the cache nor the cold      *)
(* store is kept in place with an empty username, and a cache miss         *)
(* resolved from the cold store populates the cache entry for that user.   *)
(***************************************************************************)
\* The (rank, user_id, rating) of the entries GetLeaderboard holds.
Ranking(entries) ==
    [k \in DOMAIN entries |-> [Rank |-> entries[k].Rank,
                               UserID |-> entries[k].UserID,
                               Rating |-> entries[k].Rating]]

Near(a, b) == a - b \in {0 - 1, 0, 1}

C29_RaceOffByOne ==
    (race.pc = "done" /\ race.writes = 1) =>
        \/ Near(race.rank, TrueRank(race.before, race.userID))
        \/ Near(race.rank, TrueRank(race.after, race.userID))

\* C29 witness: the one write raised the user's own score; the rank
\* returned is one more than the true rank before the write and at least
\* two more than the true rank after it.
C29_Witness ==
    /\ race.pc = "done"
    /\ race.writes = 1
    /\ race.after[race.userID] > race.before[race.userID]
    /\ race.rank = TrueRank(race.before, race.userID) + 1
    /\ race.rank >= TrueRank(race.after, race.userID) + 2

(***************************************************************************)
(* C30: with no write in flight, for every entry returned by top(N) the    *)
(* entry's rank equals rank_of(entry.user_id): the ranks assigned by the   *)
(* prefix scan (rank 1 first, inherit on equal score, else index + 1) are  *)
(* the global competition ranks.                                           *)
(***************************************************************************)
\* The ranks of the last top(N) result follow the scan rule.
ScanRule ==
    \A k \in DOMAIN topres.entries :
        topres.entries[k].Rank =
            IF k = 1 THEN 1
            ELSE IF topres.entries[k].Rating = topres.entries[k - 1].Rating
                 THEN topres.entries[k - 1].Rank
                 ELSE k

C30_TopRanksAreGlobal ==
    topres.called =>
        /\ ScanRule
        /\ \A k \in DOMAIN topres.entries :
              LET r == GetUserRank(zset, topres.entries[k].UserID)
              IN ~r.err /\ topres.entries[k].Rank = r.rank

\* C30 witness: top(3) of four members returned ranks 1, 1, 3, and
\* rank_of of the third entry's user is 3.
C30_Witness ==
    /\ topres.called
    /\ topres.limit = 3
    /\ Cardinality(DOMAIN zset) = 4
    /\ Len(topres.entries) = 3
    /\ topres.entries[1].Rank = 1
    /\ topres.entries[2].Rank = 1
    /\ topres.entries[3].Rank = 3
    /\ GetUserRank(zset, topres.entries[3].UserID).rank = 3

(***************************************************************************)
(* C31  The hub's registry under concurrent callers.                       *)
(***************************************************************************)
\* The clients the hub has accepted a Register of, and those it has since
\* accepted an Unregister of or evicted on a full queue.
Registered == {c \in HubClients : rp[c] # "none"}
Departed == {c \in HubClients : rp[c] = "exit" \/ closed[c]}

\* A step that changes nothing but the reported count is a GetClientCount
\* call.
CountRead == count' # count /\ UNCHANGED hubVars

\* C31: in every reachable state the registry holds exactly the clients
\* that were registered and have not since been unregistered or evicted,
\* whatever the interleaving of Register, Unregister, broadcasts and
\* count reads; a count read reports the size of that set, and the last
\* reported count is never more than the number of clients ever registered.
C31_RegistryExact ==
    /\ [](clients = Registered \ Departed)
    /\ [](count <= Cardinality(Registered))
    /\ [][CountRead => count' = Cardinality(Registered \ Departed)]_vars

\* One client was evicted or unregistered, the other is still registered,
\* and a count read has reported one client.
C31_Witness ==
    /\ count = 1
    /\ Cardinality(clients) = 1
    /\ Departed # {}

(***************************************************************************)
(* C32  A failed read of the new rank.                                     *)
(***************************************************************************)
\* The GetUserRank call of STEP 3 of goroutine p fails, in its ZSCORE or
\* in its ZCOUNT.
NewRankFailStep(p) ==
    /\ upc[p] \in {"newscore", "newcount"}
    /\ upc'[p] # upc[p]
    /\ faults' = faults + 1

\* The call of goroutine p goes on with the rank 0 of a failed read.
RankUnread(p) == ul[p].newRank = 0

\* C32: when the read of the new rank fails, the call sets new_rank to 0
\* and goes on to the publish; with that rank its publish step, when the
\* bus takes the message, publishes the event with new_rank 0 and
\* rank_delta = old_rank - 0 and goes on to the enqueue, and its enqueue
\* step returns that event without an error, the item being in the stream
\* when the XADD succeeded.
C32_NewRankFailure ==
    [][\A p \in Procs :
          /\ NewRankFailStep(p) =>
                /\ upc'[p] = "publish"
                /\ ul'[p].newRank = 0
                /\ BuildPayload(ul'[p]).RankDelta = ul[p].oldRank
          /\ PublishStep(p) /\ RankUnread(p) =>
                /\ upc'[p] = "enqueue"
                /\ ul'[p] = ul[p]
                /\ events' # events =>
                      /\ Len(events') = Len(events) + 1
                      /\ UnmarshalPayload(events'[Len(events')].data)
                            = [BuildPayload(ul[p]) EXCEPT
                                 !.NewRank = 0, !.RankDelta = ul[p].oldRank]
          /\ EnqueueStep(p) /\ RankUnread(p) =>
                /\ upc'[p] = "idle"
                /\ \E r \in returned' \ returned :
                      /\ r.cid = ul[p].cid
                      /\ r.err = ""
                      /\ r.payload.NewRank = 0
                      /\ r.payload.RankDelta = ul[p].oldRank
                      /\ stream' # stream =>
                            /\ r.item = stream'[Len(stream')].id
                            /\ UnmarshalItem(stream'[Len(stream')].data)
                                  = BuildItem(ul[p])]_vars

\* A call of a ranked user whose rank read failed has returned without an
\* error an event with new_rank 0 and rank_delta = old_rank; the event was
\* published and the item is in the stream.
C32_Witness ==
    \E r \in returned :
        /\ r.err = ""
        /\ r.payload.OldRank > 0
        /\ r.payload.NewRank = 0
        /\ r.payload.RankDelta = r.payload.OldRank
        /\ \E k \in DOMAIN events :
              /\ events[k].cid = r.cid
              /\ UnmarshalPayload(events[k].data) = r.payload
        /\ \E n \in DOMAIN stream : stream[n].id = r.item

(***************************************************************************)
(* C33  A stream entry that does not unmarshal.                            *)
(***************************************************************************)
\* The poison entries and the well-formed entries among some entries.
PoisonIds(entries) ==
    {entries[i].id : i \in {j \in DOMAIN entries :
                                 ItemJSONError(entries[j].data)}}
GoodIds(entries) == Ids(entries) \ PoisonIds(entries)

\* The history rows of the well-formed entries of a batch, in its order.
GoodRows(entries) ==
    LET good == SelectSeq(entries, LAMBDA e : e.id \in GoodIds(entries))
    IN [i \in DOMAIN good |-> HistoryRow(UnmarshalItem(good[i].data))]

\* processBatch commits its transaction / acknowledges.
CommitStep == wpc = "tx" /\ wpc' = "ack"
AckStep == wpc = "ack" /\ wpc' = "idle"

\* C33: a stream entry whose payload fails to unmarshal is never applied
\* to the cold store and, once delivered, stays unacknowledged; the
\* transaction of its batch writes exactly the rows of the batch's other
\* entries, and the acknowledgement that follows removes exactly those
\* other entries from the pending list.
C33_PoisonSkipped ==
    /\ [](\A k \in DOMAIN stream :
            ItemJSONError(stream[k].data) =>
                /\ stream[k].id \notin committed
                /\ stream[k].id <= lastDelivered => stream[k].id \in pel)
    /\ [](\A k \in DOMAIN history : history[k].UserID \in DOMAIN cold)
    /\ [][CommitStep =>
            /\ history' = history \o GoodRows(batch)
            /\ committed' = committed \cup GoodIds(batch)]_vars
    /\ [][AckStep =>
            /\ pel' = pel \ GoodIds(batch)
            /\ GoodIds(batch) \subseteq committed]_vars

\* A poison entry and a well-formed entry were read in one batch: the
\* well-formed one is applied and acknowledged, the poison one is still
\* pending and the cold store holds the rating of the well-formed item.
C33_Witness ==
    \E k, n \in DOMAIN stream :
        /\ ItemJSONError(stream[k].data)
        /\ ~ItemJSONError(stream[n].data)
        /\ stream[n].id = stream[k].id + 1
        /\ stream[k].id \in pel
        /\ stream[n].id \in committed \ pel
        /\ wpc = "idle"
        /\ batchCounter = 1
        /\ LET it == UnmarshalItem(stream[n].data)
           IN cold[it.UserID].Rating = it.NewRating

(***************************************************************************)
(* C34  A bus message that does not unmarshal.                             *)
(***************************************************************************)
\* The well-formed messages among some bus messages, in their order.
WellFormed(msgs) == SelectSeq(msgs, LAMBDA m : ~PayloadJSONError(m.data))

\* The receiving goroutine of instance i takes a message it cannot parse.
PoisonTaken(i) ==
    /\ sub[i] = "live"
    /\ subch[i] # <<>>
    /\ PayloadJSONError(Head(subch[i]).data)
    /\ Len(subch'[i]) < Len(subch[i])
    /\ ~BusStop(i)

\* C34: a bus message that cannot be parsed is taken off the subscription
\* without a call of the handler and the subscription stays live; the
\* handler of a live subscription has been given, in order, exactly the
\* well-formed messages published since the subscription began, those
\* still waiting excepted, and while the subscription lives the waiting
\* ones are taken again and again until none is left.
C34_PoisonMessageSkipped ==
    /\ [][\A i \in Insts :
            PoisonTaken(i) =>
                /\ sub'[i] = "live"
                /\ subch'[i] = Tail(subch[i])
                /\ UNCHANGED <<handed, broadcast, nsent>>]_vars
    /\ [](\A i \in Insts :
            sub[i] = "live" =>
                handed[i] \o Payloads(WellFormed(subch[i]))
                    = Payloads(WellFormed(EventsSince(i))))
    /\ \A i \in Insts : []<>(sub[i] # "live" \/ subch[i] = <<>>)

\* An instance took a message it could not parse and was then handed a
\* well-formed message published after it.
C34_Witness ==
    \E i \in Insts, k \in DOMAIN events :
        /\ sub[i] = "live"
        /\ subAt[i] < k
        /\ k < Len(events)
        /\ PayloadJSONError(events[k].data)
        /\ ~PayloadJSONError(events[Len(events)].data)
        /\ subch[i] = <<>>
        /\ handed[i] # <<>>
        /\ handed[i][Len(handed[i])]
              = UnmarshalPayload(events[Len(events)].data)

(***************************************************************************)
(* C35  close(client.send) and the registry.                               *)
(***************************************************************************)
\* C35: whatever the interleaving of evictions by a broadcast and
\* Unregister calls of the read tasks, the outbound queue of a client is
\* closed at most once, the hub appends only to the open queue of a
\* registered client, every client in the registry has an open queue and
\* every client with a closed queue is outside the registry.
C35_CloseOnce ==
    /\ [](\A c \in HubClients :
            /\ nclose[c] <= 1
            /\ closed[c] <=> nclose[c] = 1
            /\ c \in clients => ~closed[c]
            /\ closed[c] => c \notin clients)
    /\ [][\A c \in HubClients :
            /\ Len(send'[c]) > Len(send[c]) => c \in clients /\ ~closed[c]
            /\ nclose'[c] # nclose[c] => c \in clients /\ ~closed[c]]_vars

\* A client was evicted on a full queue by a broadcast, and afterwards the
\* Unregister call of its read task was accepted by the hub.
C35_Witness ==
    \E c \in HubClients :
        /\ closed[c]
        /\ Len(send[c]) = SendCap
        /\ rp[c] = "exit"
        /\ nclose[c] = 1

(***************************************************************************)
(* C36  Convergence of the cold store to the sorted set.                   *)
(***************************************************************************)
\* No update_score call is in flight.
AllReturned == \A p \in Procs : upc[p] = "idle"

\* The stream is drained and nothing failed on the way: every call
\* returned without an error, every item it enqueued was committed, and
\* the worker is between two batches.
FullyDrained ==
    /\ Drained
    /\ wpc = "idle"
    /\ dbFails = 0
    /\ \A r \in returned : r.err = "" /\ r.item \in committed

\* C36 (as claimed): after all update_score calls have returned and the
\* write-behind stream has been fully drained without failures, the
\* cold-store rating of every user equals the user's score in the sorted
\* set, also when calls for the same user ran concurrently.
C36_ColdConverges ==
    (AllReturned /\ FullyDrained) =>
        \A u \in DOMAIN zset \cap DOMAIN cold : cold[u].Rating = zset[u]

(***************************************************************************)
(* C37  The cached rating and the sorted-set score.                        *)
(***************************************************************************)
\* C37 (as claimed): whenever no update_score call is in flight, every
\* user with a sorted-set member and an attribute cache entry has a cached
\* rating equal to the sorted-set score, also after concurrent calls for
\* the same user.
C37_CacheAgrees ==
    AllReturned =>
        \A u \in DOMAIN zset :
            ~GetCachedUser(cache, u).err =>
                GetCachedUser(cache, u).Rating = zset[u]

(***************************************************************************)
(* C38  Termination of the two tasks of a connection.                      *)
(***************************************************************************)
\* Both tasks of client c have returned; for ReadPump that means its
\* Unregister call was accepted by the hub.
TasksEnded(c) == wp[c] = "exit" /\ rp[c] = "exit"

\* C38: once a client has been evicted or one of its pumps has failed on
\* the connection, both of its tasks end: the read task's Unregister is
\* accepted by the hub and the write task returns; the read task ends only
\* through an accepted Unregister, and at the end the client is out of the
\* registry with its queue closed.
C38_TasksTerminate ==
    /\ \A c \in HubClients :
          []<>(~(Left(c) \/ PumpFailed(c)) \/ TasksEnded(c))
    /\ [](\A c \in HubClients : TasksEnded(c) => Left(c) /\ closed[c])
    /\ [][\A c \in HubClients :
            (rp[c] # "exit" /\ rp'[c] = "exit") => rp[c] = "unreg"]_vars

\* A client was evicted on a full queue; its write task then drained the
\* queue and ended on the closed channel, and its read task ended after it.
C38_Witness ==
    \E c \in HubClients :
        /\ TasksEnded(c)
        /\ send[c] = <<>>
        /\ Len(wrote[c]) >= SendCap
        /\ nclose[c] = 1

(***************************************************************************)
(* C39  Ratings and global ranks of a search result.                       *)
(***************************************************************************)
\* C39 (as claimed): in every search result list the ratings and the
\* global ranks agree: of two results the one with the strictly higher
\* rating has a global_rank that is lower or equal, and results with equal
\* ratings have equal global_rank, also while write-behind items of those
\* users are undrained.
C39_SearchRanksAgree ==
    sres.called =>
        \A a, b \in Range(sres.results) :
            /\ a.Rating > b.Rating => a.GlobalRank <= b.GlobalRank
            /\ a.Rating = b.Rating => a.GlobalRank = b.GlobalRank

=============================================================================
